---- MODULE Spec2Model ----
(***************************************************************************)
(* Overtime callout engine of the Timeshift backend                        *)
(* (backend/src/api/callout.rs, backend/src/api/schedule.rs).              *)
(*                                                                         *)
(* The database is modelled at PostgreSQL's default READ COMMITTED level:  *)
(* every statement reads the committed tables, a transaction's writes are  *)
(* kept in its local state until COMMIT, and a statement that needs a row  *)
(* or unique-index entry held by another open transaction waits (its       *)
(* action is disabled) until that transaction commits or rolls back.       *)
(* record_attempt is a multi-statement transaction and is modelled with    *)
(* one step per statement that can wait or that reads what a concurrent    *)
(* transaction can change; the other handlers issue a single writing       *)
(* statement and are one action each.                                      *)
(*                                                                         *)
(* callout_list is one read-only statement over the committed tables; rows  *)
(* that compare equal under its ORDER BY come back in an order the database *)
(* is free to choose, so the action returns any list that is sorted.        *)
(*                                                                         *)
(* Hours are whole hours: the shift templates of the model have durations  *)
(* that are multiples of 60 minutes, for which duration_minutes / 60.0 and *)
(* the FLOAT8 -> NUMERIC cast are exact.                                   *)
(***************************************************************************)
EXTENDS Integers, Sequences, FiniteSets, Bags, TLC

\* ---------------------------------------------------------------- bounds
\* number of connections that can run record_attempt concurrently
NumTx == 2
\* number of callout_attempts rows that may be written (committed or in flight)
MaxAttempts == 2
\* number of callout events that create_event may insert
MaxEvents == 2
\* number of assignments rows up to which create_assignment is served
MaxAssignments == 1
\* number of classifications rows up to which classifications::create is served
MaxClassifications == 1
\* number of leave_requests rows that may be written (stored or in flight)
MaxLeave == 2
\* number of cancel_event calls that may wait for their UPDATE at a time
MaxCancels == 1

\* ------------------------------------------------------------ static data
Txs == 1..NumTx

\* users table: (org_id, is_active); "u0" and "u9" are ids with no row
UserTable ==
  [u1 |-> [org_id |-> "A", is_active |-> TRUE],
   u2 |-> [org_id |-> "A", is_active |-> TRUE],
   u3 |-> [org_id |-> "A", is_active |-> FALSE],
   u4 |-> [org_id |-> "B", is_active |-> TRUE],
   u5 |-> [org_id |-> "A", is_active |-> TRUE]]
UserIds == DOMAIN UserTable
\* user ids of create_assignment requests
ReqUserIds == {"u1", "u2", "u3", "u4"}

\* shifts::create_template: the duration_minutes stored for a template with
\* the given start_time and end_time ([hour, minute]); a template is stored
\* only if the value is above 0, and no handler changes the column
template_duration(start_time, end_time) ==
  IF \/ end_time.hour < start_time.hour
     \/ (end_time.hour = start_time.hour /\ end_time.minute < start_time.minute)
    THEN ((24 * 60) - start_time.hour * 60 - start_time.minute)
         + end_time.hour * 60 + end_time.minute
    ELSE (end_time.hour - start_time.hour) * 60 + end_time.minute - start_time.minute

\* scheduled_shifts joined with shift_templates: (org_id, date, duration_minutes)
\* every shift is of org "A"; org "B" is the foreign tenant, which has a user
\* and a caller; "s0" is an id with no row
ShiftTable ==
  [s1 |-> [org_id |-> "A", date |-> [year |-> 2026, day |-> 200],
           duration_minutes |-> template_duration([hour |-> 8, minute |-> 0],
                                                  [hour |-> 16, minute |-> 0])]]
ShiftIds == DOMAIN ShiftTable
ReqShiftIds == ShiftIds \cup {"s0"}

\* ot_reasons: (org_id); "r0" is an id with no row
ReasonTable == [r1 |-> [org_id |-> "A"], r2 |-> [org_id |-> "B"]]
ReasonIds == DOMAIN ReasonTable
\* ot_reason_id: None
NoReason == "none"
\* classification_id: None; the id of a classifications row is its index
NoClassification == 0
Years == {2026, 2027}

\* authenticated callers (AuthUser: id, org_id, role)
Callers ==
  { [id |-> "u1", org_id |-> "A", role |-> "supervisor"],
    [id |-> "u2", org_id |-> "A", role |-> "employee"],
    [id |-> "u4", org_id |-> "B", role |-> "admin"] }

Responses == {"accepted", "declined", "no_answer"}
ReqResponses == Responses \cup {"maybe"}

Supervisor == CHOOSE c \in Callers : c.role = "supervisor"

\* record_attempt requests: the supervisor of org "A" with every response for
\* the users that pass the user check; for a user that fails it, for a
\* response that is refused and for the callers that are refused, where the
\* rest of the request is never looked at, one request each
AttemptRequests ==
  [caller : {Supervisor}, user_id : {"u1", "u2"}, response : Responses]
    \cup [caller : {Supervisor}, user_id : {"u3", "u4", "u9"}, response : {"accepted"}]
    \cup [caller : {Supervisor}, user_id : {"u1"}, response : ReqResponses \ Responses]
    \cup {[caller |-> c, user_id |-> c.id, response |-> "accepted"] : c \in Callers \ {Supervisor}}

\* create_assignment requests, chosen the same way; is_overtime is left at its
\* default
AssignmentRequests ==
  [caller : {Supervisor}, scheduled_shift_id : ReqShiftIds, user_id : ReqUserIds,
   is_overtime : {FALSE}]
    \cup {[caller |-> c, scheduled_shift_id |-> "s1", user_id |-> c.id, is_overtime |-> FALSE] :
             c \in Callers \ {Supervisor}}

NoRow == [hours_worked |-> -1, hours_declined |-> -1]
NoReq == [caller |-> [id |-> "u0", org_id |-> "-", role |-> "-"],
          event_id |-> 0, user_id |-> "u0", response |-> "-"]
NoLoc == [ot_snapshot |-> 0, position |-> 0, assign_inserted |-> FALSE,
          assign_skipped |-> FALSE, ledger_new |-> NoRow]

\* create_event requests: every caller and shift without the optional
\* references; for the callers that pass the capability check an existing
\* shift with a reason or a classification of the caller's organization, of
\* the other organization or with no row
EventRequests ==
  [caller : Callers, scheduled_shift_id : ReqShiftIds,
   ot_reason_id : {NoReason}, classification_id : {NoClassification}]
    \cup [caller : {c \in Callers : c.role # "employee"}, scheduled_shift_id : {"s1"},
          ot_reason_id : ReasonIds \cup {"r0"}, classification_id : {NoClassification}]
    \cup [caller : {c \in Callers : c.role # "employee"}, scheduled_shift_id : {"s1"},
          ot_reason_id : {NoReason}, classification_id : 1..(MaxClassifications + 1)]

\* classifications::create requests (lengths of name and abbreviation): a
\* valid one for every caller, and one with an empty name
ClassificationRequests ==
  [caller : Callers, name_len : {10}, abbreviation_len : {3}]
    \cup [caller : Callers \ {Supervisor}, name_len : {0}, abbreviation_len : {3}]

\* u.seniority_date IS NULL
NullDate == 0

\* users.role of the rows of UserTable, as the Callers have it
RoleTable ==
  [u1 |-> "supervisor", u2 |-> "employee", u3 |-> "employee", u4 |-> "admin", u5 |-> "employee"]
\* a connection that runs no handler of users.rs or leave.rs
NoCall == [op |-> "idle"]
\* unavailable_reason IS NULL
NullReason == "NULL"

VARIABLES
  events,       \* callout_events: sequence of [scheduled_shift_id, status], id = index
  attempts,     \* callout_attempts in commit order
  assignments,  \* assignments: bag of [scheduled_shift_id, user_id, is_overtime]
  ot_hours,     \* ot_hours rows with classification_id IS NULL, keyed by <<user, fiscal_year>>
  pc,           \* per connection: position inside record_attempt
  req,          \* per connection: the request being served
  loc,          \* per connection: locals and uncommitted writes of the transaction
  lastOp,       \* the handler that returned last and what it returned
  lastList,     \* the list in the body of that answer (empty unless callout_list returned it)
  classifications,  \* classifications: sequence of [org_id, name_len, abbreviation_len]
  leave_requests,   \* leave_requests: set of [id, user_id, status, start_date, end_date]
  seniority_date,   \* users.seniority_date per user (a year, or NullDate)
  current_year,     \* EXTRACT(YEAR FROM CURRENT_DATE)
  users,            \* users.role and users.is_active per user, as users.rs reads and writes them
  call              \* per connection: the users.rs or leave.rs handler it runs and its position

vars == <<events, attempts, assignments, ot_hours, pc, req, loc, lastOp, lastList,
          classifications, leave_requests, seniority_date, current_year, users, call>>
\* what the callout handlers of schedule.rs and callout.rs never write
aux == <<classifications, leave_requests, seniority_date, current_year, users, call>>
db == <<events, attempts, assignments, ot_hours>>
txvars == <<pc, req, loc>>

\* ------------------------------------------------------------- helpers
can_manage_schedule(role) == role \in {"admin", "supervisor"}

EventExists(e) == e \in 1..Len(events)

\* ss.org_id of the event's scheduled shift
EventOrg(e) == ShiftTable[events[e].scheduled_shift_id].org_id

\* fiscal_year = ctx.shift_date.year()
fiscal_year(e) == ShiftTable[events[e].scheduled_shift_id].date.year

\* shift_hours = ctx.duration_minutes as f64 / 60.0
shift_hours(e) == ShiftTable[events[e].scheduled_shift_id].duration_minutes \div 60

\* SELECT EXISTS(SELECT 1 FROM users WHERE id = $1 AND org_id = $2)
verify_user_any_status(u, org) ==
  u \in UserIds /\ UserTable[u].org_id = org

\* SELECT EXISTS(SELECT 1 FROM users WHERE id = $1 AND org_id = $2 AND is_active = true)
verify_user(u, org) ==
  u \in UserIds /\ UserTable[u].org_id = org /\ UserTable[u].is_active

\* SELECT EXISTS(SELECT 1 FROM scheduled_shifts WHERE id = $1 AND org_id = $2)
verify_scheduled_shift(s, org) ==
  s \in ShiftIds /\ ShiftTable[s].org_id = org

\* SELECT EXISTS(SELECT 1 FROM ot_reasons WHERE id = $1 AND org_id = $2)
verify_ot_reason(r, org) ==
  r \in ReasonIds /\ ReasonTable[r].org_id = org

\* the check without AND org_id = $2
verify_classification_any_org(c, org) ==
  c \in 1..Len(classifications)

\* SELECT EXISTS(SELECT 1 FROM classifications WHERE id = $1 AND org_id = $2)
verify_classification(c, org) ==
  c \in 1..Len(classifications) /\ classifications[c].org_id = org

\* rows of the assignments table for one (scheduled_shift_id, user_id) key
AssignmentRows(s, u) ==
  {a \in BagToSet(assignments) : a.scheduled_shift_id = s /\ a.user_id = u}

AttemptsOf(e) == SelectSeq(attempts, LAMBDA a : a.event_id = e)

\* the transaction of connection p is open and holds the FOR UPDATE lock on event e
HoldsEventLock(p, e) ==
  /\ pc[p] \in {"assign", "upsert", "commit"}
  /\ req[p].event_id = e

\* the SELECT without FOR UPDATE: the read never waits
EventLocked_none(p, e) == FALSE

\* the FOR UPDATE read of connection p has to wait for another transaction
EventLocked(p, e) == \E q \in Txs \ {p} : HoldsEventLock(q, e)

\* connection q has an uncommitted assignments row for key (s, u)
HoldsAssignmentKey(q, s, u) ==
  /\ pc[q] \in {"upsert", "commit"}
  /\ loc[q].assign_inserted
  /\ events[req[q].event_id].scheduled_shift_id = s
  /\ req[q].user_id = u

\* a total read before the transaction and written back: no row is held
HoldsLedgerRow_none(q, u, y) == FALSE

\* the snapshot read taken FOR UPDATE: the row is held from statement 3 on
HoldsLedgerRow_from_snapshot(q, u, y) ==
  /\ pc[q] \in {"assign", "upsert", "commit"}
  /\ req[q].user_id = u
  /\ fiscal_year(req[q].event_id) = y

\* connection q has an uncommitted version of the ot_hours row <<u, y>>
HoldsLedgerRow(q, u, y) ==
  /\ pc[q] = "commit"
  /\ loc[q].ledger_new # NoRow
  /\ req[q].user_id = u
  /\ fiscal_year(req[q].event_id) = y

Init ==
  /\ events = << >>
  /\ attempts = << >>
  /\ assignments = EmptyBag
  /\ ot_hours = [k \in UserIds \X Years |-> NoRow]
  /\ pc = [p \in Txs |-> "idle"]
  /\ req = [p \in Txs |-> NoReq]
  /\ loc = [p \in Txs |-> NoLoc]
  /\ lastOp = "none"
  /\ lastList = << >>
  /\ classifications = << >>
  /\ leave_requests = {}
  /\ seniority_date = [u1 |-> 2010, u2 |-> 2015, u3 |-> 2012, u4 |-> 2011, u5 |-> NullDate]
  /\ current_year = 2026
  /\ users = [u \in UserIds |-> [role |-> RoleTable[u], is_active |-> UserTable[u].is_active]]
  /\ call = [p \in Txs |-> NoCall]

\* ------------------------------------------------------------ create_event
\* The callout_events row is kept with the columns the statements of the
\* model read (scheduled_shift_id, status).
create_event(caller, s, reason, class) ==
  /\ Len(events) < MaxEvents
  /\ IF ~can_manage_schedule(caller.role)
       THEN /\ lastOp' = "Forbidden"
            /\ UNCHANGED events
       ELSE IF ~verify_scheduled_shift(s, caller.org_id)
       THEN /\ lastOp' = "NotFound"
            /\ UNCHANGED events
       ELSE IF reason # NoReason /\ ~verify_ot_reason(reason, caller.org_id)
       THEN /\ lastOp' = "NotFound"
            /\ UNCHANGED events
       ELSE IF class # NoClassification /\ ~verify_classification(class, caller.org_id)
       THEN /\ lastOp' = "NotFound"
            /\ UNCHANGED events
       ELSE /\ events' = Append(events, [scheduled_shift_id |-> s, status |-> "open"])
            /\ lastOp' = "ok"
  /\ lastList' = << >>
  /\ UNCHANGED <<attempts, assignments, ot_hours, txvars, aux>>

\* ------------------------------------------------------------ cancel_event
\* One UPDATE ... WHERE id = $1 AND status = 'open' AND EXISTS(shift in org).
\* A row that matches but is locked by an open transaction makes the UPDATE
\* wait and re-check the row afterwards.
\* the WHERE clause without status = 'open'
cancel_where_any_status(e, org) ==
  /\ EventExists(e)
  /\ EventOrg(e) = org

\* the WHERE clause without the EXISTS on the shift's organization
cancel_where_any_org(e, org) ==
  /\ EventExists(e)
  /\ events[e].status = "open"

\* the WHERE clause of the UPDATE
cancel_where(e, org) ==
  /\ EventExists(e)
  /\ events[e].status = "open"
  /\ EventOrg(e) = org

cancel_event(caller, e) ==
  /\ IF ~can_manage_schedule(caller.role)
       THEN /\ lastOp' = "Forbidden"
            /\ UNCHANGED events
       ELSE IF cancel_where(e, caller.org_id)
       THEN /\ \A q \in Txs : ~HoldsEventLock(q, e)
            /\ events' = [events EXCEPT ![e].status = "cancelled"]
            /\ lastOp' = "ok"
       ELSE /\ lastOp' = "NotFound"
            /\ UNCHANGED events
  /\ lastList' = << >>
  /\ UNCHANGED <<attempts, assignments, ot_hours, txvars, aux>>

\* ------------------------------------------------------- create_assignment
\* Plain INSERT: a committed row with the same (scheduled_shift_id, user_id)
\* is a unique violation (AppError::Database with SQLSTATE 23505, answered
\* with status 409); an uncommitted one makes the INSERT wait.
create_assignment(caller, s, u, ot) ==
  /\ BagCardinality(assignments) < MaxAssignments
  /\ IF ~can_manage_schedule(caller.role)
       THEN /\ lastOp' = "Forbidden"
            /\ UNCHANGED assignments
       ELSE IF ~verify_scheduled_shift(s, caller.org_id) \/ ~verify_user(u, caller.org_id)
       THEN /\ lastOp' = "NotFound"
            /\ UNCHANGED assignments
       ELSE /\ \A q \in Txs : ~HoldsAssignmentKey(q, s, u)
            /\ IF AssignmentRows(s, u) # {}
                 THEN /\ lastOp' = "UniqueViolation"
                      /\ UNCHANGED assignments
                 ELSE /\ assignments' = assignments (+)
                           SetToBag({[scheduled_shift_id |-> s, user_id |-> u, is_overtime |-> ot]})
                      /\ lastOp' = "ok"
  /\ lastList' = << >>
  /\ UNCHANGED <<events, attempts, ot_hours, txvars, aux>>

\* ------------------------------------------------------- delete_assignment
\* The id in the path either names a committed row (a) or no row at all.
delete_assignment(caller, a) ==
  /\ IF ~can_manage_schedule(caller.role)
       THEN /\ lastOp' = "Forbidden"
            /\ UNCHANGED assignments
       ELSE IF BagIn(a, assignments) /\ ShiftTable[a.scheduled_shift_id].org_id = caller.org_id
       THEN /\ assignments' = assignments (-) SetToBag({a})
            /\ lastOp' = "ok"
       ELSE /\ lastOp' = "NotFound"
            /\ UNCHANGED assignments
  /\ lastList' = << >>
  /\ UNCHANGED <<events, attempts, ot_hours, txvars, aux>>

\* ---------------------------------------------------------- record_attempt
\* return Err(..): the handler returns; an open transaction is dropped, which
\* rolls it back and releases its locks
Fail(p, err) ==
  /\ pc' = [pc EXCEPT ![p] = "idle"]
  /\ lastOp' = err
  /\ lastList' = << >>
  /\ req' = [req EXCEPT ![p] = NoReq]
  /\ loc' = [loc EXCEPT ![p] = NoLoc]

Goto(p, label) ==
  /\ pc' = [pc EXCEPT ![p] = label]
  /\ UNCHANGED <<req, lastOp, lastList>>

\* rows of callout_attempts written or about to be written
AttemptsInFlight == Len(attempts) + Cardinality({q \in Txs : pc[q] # "idle"})

\* capability check, response validation, pool.begin(); an event id that was
\* never issued (0) finds no row to lock. The pool hands out its first idle
\* connection.
record_attempt_begin(p, caller, e, u, r) ==
  /\ pc[p] = "idle"
  /\ \A q \in Txs : q < p => pc[q] # "idle"
  /\ AttemptsInFlight < MaxAttempts
  /\ IF ~can_manage_schedule(caller.role)
       THEN Fail(p, "Forbidden")
       ELSE IF r \notin Responses
       THEN Fail(p, "BadRequest")
       ELSE IF ~EventExists(e)
       THEN Fail(p, "NotFound")
       ELSE /\ pc' = [pc EXCEPT ![p] = "lock"]
            /\ req' = [req EXCEPT ![p] = [caller |-> caller, event_id |-> e,
                                          user_id |-> u, response |-> r]]
            /\ UNCHANGED <<loc, lastOp, lastList>>
  /\ UNCHANGED <<db, aux>>

\* the callout_attempts row the transaction inserts
AttemptRow(p) ==
  [event_id |-> req[p].event_id, user_id |-> req[p].user_id,
   list_position |-> loc[p].position, response |-> req[p].response,
   ot_hours_at_contact |-> loc[p].ot_snapshot]

\* SELECT hours_declined instead of hours_worked
ot_snapshot_declined(u, y) ==
  IF ot_hours[<<u, y>>] = NoRow THEN 0 ELSE ot_hours[<<u, y>>].hours_declined

\* 3. snapshot of hours_worked (0 when there is no row)
ot_snapshot(u, y) ==
  IF ot_hours[<<u, y>>] = NoRow THEN 0 ELSE ot_hours[<<u, y>>].hours_worked

\* COUNT(*) without the + 1
position_from_zero(e) == Len(AttemptsOf(e))

\* COUNT(*) without WHERE event_id = $1
position_all_events(e) == Len(attempts) + 1

\* 4. position = COUNT(*) of the event's attempts + 1
position(e) == Len(AttemptsOf(e)) + 1

\* the user check moved in front of the status check
record_attempt_check_user_first(rq) ==
  IF EventOrg(rq.event_id) # rq.caller.org_id THEN "NotFound"
  ELSE IF ~verify_user(rq.user_id, rq.caller.org_id) THEN "NotFound"
  ELSE IF events[rq.event_id].status # "open" THEN "Conflict"
  ELSE "ok"

\* the checks on the locked event row and on the target user, in the order
\* of the code
record_attempt_check(rq) ==
  IF EventOrg(rq.event_id) # rq.caller.org_id THEN "NotFound"
  ELSE IF events[rq.event_id].status # "open" THEN "Conflict"
  ELSE IF ~verify_user(rq.user_id, rq.caller.org_id) THEN "NotFound"
  ELSE "ok"

\* "declined" | _ : every response but "accepted" takes the declined arm
match_response_no_answer_declines(r) ==
  CASE r = "accepted" -> "assign"
    [] OTHER -> "upsert"

\* match req.response.as_str(): the statement that follows the attempt insert
match_response(r) ==
  CASE r = "accepted" -> "assign"
    [] r = "declined" -> "upsert"
    [] OTHER -> "commit"

\* Statements 1 to 5 up to the first one that can wait after the lock is
\* taken: SELECT ... FOR UPDATE OF ce with the org and status checks, the
\* user check, the hours snapshot, the count, the INSERT INTO
\* callout_attempts and, for "accepted", the UPDATE of the event's status.
\* After the lock is taken none of them waits, and none reads a row that the
\* holder of another event's lock has written without committing, so they
\* are one step; the writes stay in the transaction until it commits.
record_attempt_lock(p) ==
  /\ pc[p] = "lock"
  /\ LET e == req[p].event_id IN
       /\ ~EventLocked(p, e)
       /\ IF record_attempt_check(req[p]) # "ok"
            THEN Fail(p, record_attempt_check(req[p]))
            ELSE /\ loc' = [loc EXCEPT ![p].ot_snapshot = ot_snapshot(req[p].user_id, fiscal_year(e)),
                                       ![p].position = position(e)]
                 /\ Goto(p, match_response(req[p].response))
  /\ UNCHANGED <<db, aux>>

\* the INSERT without its ON CONFLICT clause reaching the table
on_conflict_never(s, u) == FALSE

\* ON CONFLICT (scheduled_shift_id, user_id): a committed row has the key
on_conflict(s, u) == AssignmentRows(s, u) # {}

\* VALUES (gen_random_uuid(), $1, $2, false, $3)
overtime_assignment_unflagged(s, u) ==
  [scheduled_shift_id |-> s, user_id |-> u, is_overtime |-> FALSE]

\* VALUES (gen_random_uuid(), $1, $2, true, $3)
overtime_assignment(s, u) ==
  [scheduled_shift_id |-> s, user_id |-> u, is_overtime |-> TRUE]

\* accepted: INSERT INTO assignments ... ON CONFLICT (scheduled_shift_id, user_id) DO NOTHING
record_attempt_assign(p) ==
  /\ pc[p] = "assign"
  /\ LET s == events[req[p].event_id].scheduled_shift_id
         u == req[p].user_id IN
       /\ \A q \in Txs \ {p} : ~HoldsAssignmentKey(q, s, u)
       /\ IF on_conflict(s, u)
            THEN loc' = [loc EXCEPT ![p].assign_skipped = TRUE]
            ELSE loc' = [loc EXCEPT ![p].assign_inserted = TRUE]
  /\ Goto(p, "upsert")
  /\ UNCHANGED <<db, aux>>

\* DO UPDATE SET hours_x = $3: the total is overwritten
UpsertRow_overwrite(row, r, h) ==
  IF row = NoRow
    THEN [hours_worked   |-> IF r = "accepted" THEN h ELSE 0,
          hours_declined |-> IF r = "accepted" THEN 0 ELSE h]
    ELSE IF r = "accepted"
    THEN [row EXCEPT !.hours_worked = h]
    ELSE [row EXCEPT !.hours_declined = h]

\* the declined arm writes hours_worked
UpsertRow_declined_as_worked(row, r, h) ==
  IF row = NoRow
    THEN [hours_worked |-> h, hours_declined |-> 0]
    ELSE [row EXCEPT !.hours_worked = row.hours_worked + h]

\* DO UPDATE SET hours_x = ot_hours.hours_x - $3
UpsertRow_subtract(row, r, h) ==
  IF row = NoRow
    THEN [hours_worked   |-> IF r = "accepted" THEN h ELSE 0,
          hours_declined |-> IF r = "accepted" THEN 0 ELSE h]
    ELSE IF r = "accepted"
    THEN [row EXCEPT !.hours_worked = row.hours_worked - h]
    ELSE [row EXCEPT !.hours_declined = row.hours_declined - h]

\* INSERT INTO ot_hours ... ON CONFLICT ... DO UPDATE SET hours_x = ot_hours.hours_x + $3
UpsertRow(row, r, h) ==
  IF row = NoRow
    THEN [hours_worked   |-> IF r = "accepted" THEN h ELSE 0,
          hours_declined |-> IF r = "accepted" THEN 0 ELSE h]
    ELSE IF r = "accepted"
    THEN [row EXCEPT !.hours_worked = row.hours_worked + h]
    ELSE [row EXCEPT !.hours_declined = row.hours_declined + h]

record_attempt_upsert(p) ==
  /\ pc[p] = "upsert"
  /\ LET u == req[p].user_id
         y == fiscal_year(req[p].event_id) IN
       /\ \A q \in Txs \ {p} : ~HoldsLedgerRow(q, u, y)
       /\ loc' = [loc EXCEPT ![p].ledger_new =
                    UpsertRow(ot_hours[<<u, y>>], req[p].response, shift_hours(req[p].event_id))]
  /\ Goto(p, "commit")
  /\ UNCHANGED <<db, aux>>

\* tx.commit(): every write of the transaction becomes visible at once; the
\* handler then reads back the attempt row it has just committed and returns
record_attempt_commit(p) ==
  /\ pc[p] = "commit"
  /\ LET e == req[p].event_id
         s == events[e].scheduled_shift_id
         u == req[p].user_id IN
       /\ attempts' = Append(attempts, AttemptRow(p))
       /\ events' = IF req[p].response = "accepted"
                      THEN [events EXCEPT ![e].status = "filled"]
                      ELSE events
       /\ assignments' = IF loc[p].assign_inserted
                           THEN assignments (+) SetToBag({overtime_assignment(s, u)})
                           ELSE assignments
       /\ ot_hours' = IF loc[p].ledger_new # NoRow
                        THEN [ot_hours EXCEPT ![<<u, fiscal_year(e)>>] = loc[p].ledger_new]
                        ELSE ot_hours
  /\ pc' = [pc EXCEPT ![p] = "idle"]
  /\ lastOp' = "ok"
  /\ lastList' = << >>
  /\ req' = [req EXCEPT ![p] = NoReq]
  /\ loc' = [loc EXCEPT ![p] = NoLoc]
  /\ UNCHANGED aux

\* the tables after the transaction of connection p is dropped without a
\* commit, with the attempt row written outside the transaction
rollback_keeps_attempt(p) ==
  [events |-> events, attempts |-> Append(attempts, AttemptRow(p)),
   assignments |-> assignments, ot_hours |-> ot_hours]

\* the tables after the transaction of connection p is dropped without a
\* commit: sqlx rolls it back, none of its writes reaches them
rollback(p) ==
  [events |-> events, attempts |-> attempts,
   assignments |-> assignments, ot_hours |-> ot_hours]

\* a statement or the commit of the open transaction fails (`.await?` returns
\* AppError::Database), or the request is dropped while it waits
record_attempt_abort(p) ==
  /\ pc[p] \in {"lock", "assign", "upsert", "commit"}
  /\ Fail(p, "Database")
  /\ events' = rollback(p).events
  /\ attempts' = rollback(p).attempts
  /\ assignments' = rollback(p).assignments
  /\ ot_hours' = rollback(p).ot_hours
  /\ UNCHANGED aux

record_attempt(p) ==
  \/ \E rq \in AttemptRequests, e \in 0..Len(events) :
       record_attempt_begin(p, rq.caller, e, rq.user_id, rq.response)
  \/ record_attempt_lock(p)
  \/ record_attempt_assign(p)
  \/ record_attempt_upsert(p)
  \/ record_attempt_commit(p)
  \/ record_attempt_abort(p)

\* ------------------------------------------------------------ callout_list
\* a <= b on dates [year, day]
DateLE(a, b) == a.year < b.year \/ (a.year = b.year /\ a.day <= b.day)

\* FROM users u WHERE u.is_active = true AND u.org_id = $2
Candidates(org) == {u \in UserIds : UserTable[u].is_active /\ UserTable[u].org_id = org}

\* EXISTS (SELECT 1 FROM assignments a WHERE a.user_id = u.id AND a.scheduled_shift_id = $1)
is_assigned(u, s) == AssignmentRows(s, u) # {}

\* EXISTS (SELECT 1 FROM leave_requests lr JOIN scheduled_shifts ss ON ss.id = $1
\*         WHERE lr.user_id = u.id AND lr.status = 'approved'
\*           AND lr.start_date <= ss.date AND lr.end_date >= ss.date)
on_approved_leave(u, s) ==
  \E lr \in leave_requests :
    /\ lr.user_id = u
    /\ lr.status = "approved"
    /\ DateLE(lr.start_date, ShiftTable[s].date)
    /\ DateLE(ShiftTable[s].date, lr.end_date)

\* NOT EXISTS (assignment) AND NOT EXISTS (approved leave) AS is_available
is_available(u, s) == ~is_assigned(u, s) /\ ~on_approved_leave(u, s)

\* the CASE with its WHEN branches exchanged
unavailable_reason_leave_first(u, s) ==
  IF on_approved_leave(u, s) THEN "On approved leave"
  ELSE IF is_assigned(u, s) THEN "Already scheduled"
  ELSE NullReason

\* CASE WHEN EXISTS (assignment) THEN 'Already scheduled'
\*      WHEN EXISTS (approved leave) THEN 'On approved leave' ELSE NULL END
unavailable_reason(u, s) ==
  IF is_assigned(u, s) THEN "Already scheduled"
  ELSE IF on_approved_leave(u, s) THEN "On approved leave"
  ELSE NullReason

\* LEFT JOIN ot_hours ot ON ot.user_id = u.id
\*   AND ot.fiscal_year = EXTRACT(YEAR FROM CURRENT_DATE)::int AND ot.classification_id IS NULL
\* COALESCE(ot.hours_worked, 0.0)
list_ot_hours(u) ==
  IF ot_hours[<<u, current_year>>] = NoRow THEN 0 ELSE ot_hours[<<u, current_year>>].hours_worked

\* u.seniority_date ASC NULLS FIRST
seniority_before_nulls_first(u, v) ==
  /\ seniority_date[u] # seniority_date[v]
  /\ (seniority_date[u] = NullDate \/
      (seniority_date[v] # NullDate /\ seniority_date[u] < seniority_date[v]))

\* u.seniority_date ASC NULLS LAST: u sorts strictly before v
seniority_before(u, v) ==
  /\ seniority_date[u] # NullDate
  /\ (seniority_date[v] = NullDate \/ seniority_date[u] < seniority_date[v])

\* ORDER BY without its first key
order_by_without_availability(u, v, s) ==
  \/ list_ot_hours(u) < list_ot_hours(v)
  \/ /\ list_ot_hours(u) = list_ot_hours(v)
     /\ seniority_before(u, v)

\* ORDER BY is_available DESC, COALESCE(ot.hours_worked, 0.0) ASC,
\*          u.seniority_date ASC NULLS LAST: u sorts strictly before v
order_by(u, v, s) ==
  \/ is_available(u, s) /\ ~is_available(v, s)
  \/ /\ is_available(u, s) = is_available(v, s)
     /\ \/ list_ot_hours(u) < list_ot_hours(v)
        \/ /\ list_ot_hours(u) = list_ot_hours(v)
           /\ seniority_before(u, v)

\* the orders of the set S
Perms(S) == {f \in [1..Cardinality(S) -> S] : \A i, j \in 1..Cardinality(S) : i # j => f[i] # f[j]}

\* the row orders the query can return: rows that compare equal under ORDER BY
\* come in any order
Rankings(s, org) ==
  {f \in Perms(Candidates(org)) :
     \A i, j \in 1..Len(f) : i < j => ~order_by(f[j], f[i], s)}

\* rows.into_iter().enumerate().map(|(i, r)| CalloutListEntry { position: i + 1, .. })
Entries(f, s) ==
  [i \in 1..Len(f) |->
     [position |-> i, user_id |-> f[i], seniority_date |-> seniority_date[f[i]],
      ot_hours |-> list_ot_hours(f[i]), is_available |-> is_available(f[i], s),
      unavailable_reason |-> unavailable_reason(f[i], s)]]

callout_list(caller, e) ==
  /\ IF ~can_manage_schedule(caller.role)
       THEN /\ lastOp' = "Forbidden"
            /\ lastList' = << >>
       ELSE IF ~EventExists(e) \/ EventOrg(e) # caller.org_id
       THEN /\ lastOp' = "NotFound"
            /\ lastList' = << >>
       ELSE /\ \E f \in Rankings(events[e].scheduled_shift_id, caller.org_id) :
                 lastList' = Entries(f, events[e].scheduled_shift_id)
            /\ lastOp' = "ok"
  /\ UNCHANGED <<db, txvars, aux>>

\* --------------------------------------------------- classifications::create
is_admin(role) == role = "admin"

\* #[validate(length(min = 1, max = 200))] name,
\* #[validate(length(min = 1, max = 20))] abbreviation
validate(rq) ==
  /\ 1 <= rq.name_len /\ rq.name_len <= 200
  /\ 1 <= rq.abbreviation_len /\ rq.abbreviation_len <= 20

create_classification(rq) ==
  /\ Len(classifications) < MaxClassifications
  /\ IF ~validate(rq)
       THEN /\ lastOp' = "Validation"
            /\ UNCHANGED classifications
       ELSE IF ~is_admin(rq.caller.role)
       THEN /\ lastOp' = "Forbidden"
            /\ UNCHANGED classifications
       ELSE /\ classifications' = Append(classifications,
                 [org_id |-> rq.caller.org_id, name_len |-> rq.name_len,
                  abbreviation_len |-> rq.abbreviation_len])
            /\ lastOp' = "ok"
  /\ lastList' = << >>
  /\ UNCHANGED <<db, txvars, leave_requests, seniority_date, current_year, users, call>>

\* ----------------------------------------------------------- list endpoints
\* the rows of a sequence from the last to the first
Reverse(rows) == [i \in 1..Len(rows) |-> rows[Len(rows) + 1 - i]]

\* callout::list_events: WHERE ss.org_id = $1 ORDER BY ce.created_at DESC; the
\* default LIMIT of 100 is above the number of events
list_events(caller) ==
  /\ IF ~can_manage_schedule(caller.role)
       THEN /\ lastOp' = "Forbidden"
            /\ lastList' = << >>
       ELSE /\ lastList' = Reverse(SelectSeq(
                   [i \in 1..Len(events) |->
                      [id |-> i, scheduled_shift_id |-> events[i].scheduled_shift_id,
                       status |-> events[i].status]],
                   LAMBDA r : ShiftTable[r.scheduled_shift_id].org_id = caller.org_id))
            /\ lastOp' = "ok"
  /\ UNCHANGED <<db, txvars, aux>>

\* classifications::list: WHERE org_id = $1 AND is_active = true (a row is
\* created active); any authenticated caller
list_classifications(caller) ==
  /\ lastList' = SelectSeq(
        [i \in 1..Len(classifications) |->
           [id |-> i, org_id |-> classifications[i].org_id,
            name_len |-> classifications[i].name_len]],
        LAMBDA r : r.org_id = caller.org_id)
  /\ lastOp' = "ok"
  /\ UNCHANGED <<db, txvars, aux>>

\* ORDER BY u.last_name, u.first_name: the users are named in the order of
\* their ids
UserOrder == <<"u1", "u2", "u3", "u4", "u5">>

\* users::list: WHERE u.org_id = $1 AND ($4 = false OR u.is_active = true),
\* $4 = !include_inactive
list_users(caller, include_inactive) ==
  /\ IF ~can_manage_schedule(caller.role)
       THEN /\ lastOp' = "Forbidden"
            /\ lastList' = << >>
       ELSE /\ lastList' = SelectSeq(
                   [i \in 1..Len(UserOrder) |->
                      [id |-> UserOrder[i], org_id |-> UserTable[UserOrder[i]].org_id,
                       role |-> users[UserOrder[i]].role,
                       is_active |-> users[UserOrder[i]].is_active]],
                   LAMBDA r : r.org_id = caller.org_id /\ (include_inactive \/ r.is_active))
            /\ lastOp' = "ok"
  /\ UNCHANGED <<db, txvars, aux>>

Next ==
  \/ \E rq \in EventRequests :
       create_event(rq.caller, rq.scheduled_shift_id, rq.ot_reason_id, rq.classification_id)
  \/ \E caller \in Callers, e \in 0..Len(events) : cancel_event(caller, e)
  \/ \E rq \in AssignmentRequests :
       create_assignment(rq.caller, rq.scheduled_shift_id, rq.user_id, rq.is_overtime)
  \/ \E caller \in Callers :
       \E a \in BagToSet(assignments) \cup
                {[scheduled_shift_id |-> "s0", user_id |-> "u0", is_overtime |-> FALSE]} :
         delete_assignment(caller, a)
  \/ \E p \in Txs : record_attempt(p)

\* the handlers that write the callout tables
Spec == Init /\ [][Next]_vars

\* the operations of the callout engine (create_event, callout_list,
\* record_attempt, cancel_event) and the creation of a classification,
\* without the assignment handlers of schedule.rs
NextOperations ==
  \/ \E rq \in EventRequests :
       create_event(rq.caller, rq.scheduled_shift_id, rq.ot_reason_id, rq.classification_id)
  \/ \E caller \in Callers, e \in 0..Len(events) : cancel_event(caller, e)
  \/ \E p \in Txs : record_attempt(p)
  \/ \E caller \in Callers, e \in 0..Len(events) : callout_list(caller, e)
  \/ \E rq \in ClassificationRequests : create_classification(rq)

OperationsSpec == Init /\ [][NextOperations]_vars

\* the writing operations of the callout engine and the creation of a
\* classification together with the endpoints that list events,
\* classifications and users
NextIsolation ==
  \/ \E rq \in EventRequests :
       create_event(rq.caller, rq.scheduled_shift_id, rq.ot_reason_id, rq.classification_id)
  \/ \E caller \in Callers, e \in 0..Len(events) : cancel_event(caller, e)
  \/ \E p \in Txs : record_attempt(p)
  \/ \E rq \in ClassificationRequests : create_classification(rq)
  \/ \E caller \in Callers : list_events(caller)
  \/ \E caller \in Callers : list_classifications(caller)
  \/ \E caller \in Callers, include_inactive \in BOOLEAN : list_users(caller, include_inactive)

IsolationSpec == Init /\ [][NextIsolation]_vars

\* create_event, record_attempt and callout_list on any day of the years of
\* the ledger: the date of a shift that create_event accepts is not compared
\* with the current date
InitAnyYear ==
  /\ events = << >>
  /\ attempts = << >>
  /\ assignments = EmptyBag
  /\ ot_hours = [k \in UserIds \X Years |-> NoRow]
  /\ pc = [p \in Txs |-> "idle"]
  /\ req = [p \in Txs |-> NoReq]
  /\ loc = [p \in Txs |-> NoLoc]
  /\ lastOp = "none"
  /\ lastList = << >>
  /\ classifications = << >>
  /\ leave_requests = {}
  /\ seniority_date = [u1 |-> 2010, u2 |-> 2015, u3 |-> 2012, u4 |-> 2011, u5 |-> NullDate]
  /\ current_year \in Years
  /\ users = [u \in UserIds |-> [role |-> RoleTable[u], is_active |-> UserTable[u].is_active]]
  /\ call = [p \in Txs |-> NoCall]

NextLedgerRead ==
  \/ \E rq \in EventRequests :
       create_event(rq.caller, rq.scheduled_shift_id, rq.ot_reason_id, rq.classification_id)
  \/ \E p \in Txs : record_attempt(p)
  \/ \E caller \in Callers, e \in 0..Len(events) : callout_list(caller, e)

LedgerReadSpec == InitAnyYear /\ [][NextLedgerRead]_vars

\* ------------------------------------------- users::update, users::deactivate
\* Neither handler opens a transaction: every query is a statement of its own
\* and commits by itself, so the statements of two calls interleave freely.
\* what the handlers of users.rs never write
not_users == <<db, txvars, classifications, leave_requests, seniority_date, current_year>>

\* UpdateUserRequest.role: None
NoRole == "none"

\* the claims of the bearer tokens in use (sub, org_id)
TokenClaims ==
  {[sub |-> u, org_id |-> UserTable[u].org_id] : u \in {"u1", "u2", "u3", "u4", "u5"}}

\* users::update requests (path id, role of the body)
UpdateRequests ==
  [id : {"u1", "u2"}, role : {"employee"}]
    \cup [id : {"u5"}, role : {"admin"}]
    \cup [id : {"u4"}, role : {NoRole}]

\* users::deactivate requests (path id)
DeactivateRequests == {"u1", "u2", "u4", "u9"}

\* AuthUser::from_request_parts: the row of the token's user in the token's
\* organization must exist and be active
authenticated(claims) ==
  /\ claims.sub \in UserIds
  /\ UserTable[claims.sub].org_id = claims.org_id
  /\ users[claims.sub].is_active

\* the AuthUser: id and org_id of the claims, the role of the row
AuthUser(claims) ==
  [id |-> claims.sub, org_id |-> claims.org_id, role |-> users[claims.sub].role]

\* SELECT COUNT(*) FROM users WHERE org_id = $1 AND role = 'admin' AND is_active = true
admin_count(org) ==
  Cardinality({u \in UserIds :
                 UserTable[u].org_id = org /\ users[u].role = "admin" /\ users[u].is_active})

\* the handler of connection p returns
EndCall(p, result) ==
  /\ call' = [call EXCEPT ![p] = NoCall]
  /\ lastOp' = result
  /\ lastList' = << >>

\* the handler of connection p goes on to its next statement
NextStatement(p, label) ==
  /\ call' = [call EXCEPT ![p].pc = label]
  /\ UNCHANGED <<lastOp, lastList>>

\* the pool hands out its first idle connection
FirstIdle(p) ==
  /\ call[p] = NoCall
  /\ \A q \in Txs : q < p => call[q] # NoCall

\* authentication, the admin check and the check against self-demotion
update_begin(p, claims, id, role) ==
  /\ FirstIdle(p)
  /\ IF ~authenticated(claims)
       THEN EndCall(p, "Unauthorized")
       ELSE IF ~is_admin(users[claims.sub].role)
       THEN EndCall(p, "Forbidden")
       ELSE IF claims.sub = id /\ role # NoRole /\ ~is_admin(role)
       THEN EndCall(p, "BadRequest")
       ELSE /\ call' = [call EXCEPT ![p] =
                          [op |-> "update",
                           pc |-> IF role # NoRole /\ ~is_admin(role) THEN "count" ELSE "write",
                           caller |-> AuthUser(claims), id |-> id, role |-> role]]
            /\ UNCHANGED <<lastOp, lastList>>
  /\ UNCHANGED <<users, not_users>>

\* "Prevent demoting the last admin in the org": the COUNT query
update_count(p) ==
  /\ call[p].op = "update" /\ call[p].pc = "count"
  /\ IF admin_count(call[p].caller.org_id) <= 1
       THEN EndCall(p, "BadRequest")
       ELSE NextStatement(p, "write")
  /\ UNCHANGED <<users, not_users>>

\* UPDATE users SET role = COALESCE($11, role), .. WHERE id = $1 AND org_id = $17
update_write(p) ==
  /\ call[p].op = "update" /\ call[p].pc = "write"
  /\ IF call[p].id \in UserIds /\ UserTable[call[p].id].org_id = call[p].caller.org_id
       THEN /\ users' = [users EXCEPT ![call[p].id].role =
                           IF call[p].role = NoRole THEN @ ELSE call[p].role]
            /\ EndCall(p, "ok")
       ELSE /\ EndCall(p, "NotFound")
            /\ UNCHANGED users
  /\ UNCHANGED not_users

\* authentication, the admin check and the check against self-deactivation
deactivate_begin(p, claims, id) ==
  /\ FirstIdle(p)
  /\ IF ~authenticated(claims)
       THEN EndCall(p, "Unauthorized")
       ELSE IF ~is_admin(users[claims.sub].role)
       THEN EndCall(p, "Forbidden")
       ELSE IF claims.sub = id
       THEN EndCall(p, "BadRequest")
       ELSE /\ call' = [call EXCEPT ![p] =
                          [op |-> "deactivate", pc |-> "role",
                           caller |-> AuthUser(claims), id |-> id, role |-> NoRole]]
            /\ UNCHANGED <<lastOp, lastList>>
  /\ UNCHANGED <<users, not_users>>

\* SELECT role FROM users WHERE id = $1 AND org_id = $2
deactivate_role(p) ==
  /\ call[p].op = "deactivate" /\ call[p].pc = "role"
  /\ IF ~(call[p].id \in UserIds /\ UserTable[call[p].id].org_id = call[p].caller.org_id)
       THEN EndCall(p, "NotFound")
       ELSE IF is_admin(users[call[p].id].role)
       THEN NextStatement(p, "count")
       ELSE NextStatement(p, "write")
  /\ UNCHANGED <<users, not_users>>

\* "Prevent deactivating the last admin in the org": the COUNT query
deactivate_count(p) ==
  /\ call[p].op = "deactivate" /\ call[p].pc = "count"
  /\ IF admin_count(call[p].caller.org_id) <= 1
       THEN EndCall(p, "BadRequest")
       ELSE NextStatement(p, "write")
  /\ UNCHANGED <<users, not_users>>

\* UPDATE users SET is_active = false WHERE id = $1 AND org_id = $2
deactivate_write(p) ==
  /\ call[p].op = "deactivate" /\ call[p].pc = "write"
  /\ IF call[p].id \in UserIds /\ UserTable[call[p].id].org_id = call[p].caller.org_id
       THEN /\ users' = [users EXCEPT ![call[p].id].is_active = FALSE]
            /\ EndCall(p, "ok")
       ELSE /\ EndCall(p, "NotFound")
            /\ UNCHANGED users
  /\ UNCHANGED not_users

\* organization "A" with two active admins, an inactive one and an employee
\* or supervisor; organization "B" with one admin
InitUsers ==
  /\ events = << >>
  /\ attempts = << >>
  /\ assignments = EmptyBag
  /\ ot_hours = [k \in UserIds \X Years |-> NoRow]
  /\ pc = [p \in Txs |-> "idle"]
  /\ req = [p \in Txs |-> NoReq]
  /\ loc = [p \in Txs |-> NoLoc]
  /\ lastOp = "none"
  /\ lastList = << >>
  /\ classifications = << >>
  /\ leave_requests = {}
  /\ seniority_date = [u1 |-> 2010, u2 |-> 2015, u3 |-> 2012, u4 |-> 2011, u5 |-> NullDate]
  /\ current_year = 2026
  /\ \E r5 \in {"employee", "supervisor"} :
       users = [u1 |-> [role |-> "admin", is_active |-> TRUE],
                u2 |-> [role |-> "admin", is_active |-> TRUE],
                u3 |-> [role |-> "admin", is_active |-> FALSE],
                u4 |-> [role |-> "admin", is_active |-> TRUE],
                u5 |-> [role |-> r5, is_active |-> TRUE]]
  /\ call = [p \in Txs |-> NoCall]

NextUsers ==
  \/ \E p \in Txs, claims \in TokenClaims, rq \in UpdateRequests :
       update_begin(p, claims, rq.id, rq.role)
  \/ \E p \in Txs : update_count(p)
  \/ \E p \in Txs : update_write(p)
  \/ \E p \in Txs, claims \in TokenClaims, id \in DeactivateRequests :
       deactivate_begin(p, claims, id)
  \/ \E p \in Txs : deactivate_role(p)
  \/ \E p \in Txs : deactivate_count(p)
  \/ \E p \in Txs : deactivate_write(p)

UsersSpec == InitUsers /\ [][NextUsers]_vars

\* ------------------------------------- record_attempt and cancel_event to the end
\* cancel_event from the arrival of the request: the capability check, then
\* the UPDATE, which waits while a transaction holds the row it matches.
cancel_event_call(p, caller, e) ==
  /\ FirstIdle(p)
  /\ Cardinality({q \in Txs : call[q] # NoCall}) < MaxCancels
  /\ IF ~can_manage_schedule(caller.role)
       THEN EndCall(p, "Forbidden")
       ELSE /\ call' = [call EXCEPT ![p] =
                          [op |-> "cancel_event", caller |-> caller, event_id |-> e]]
            /\ UNCHANGED <<lastOp, lastList>>
  /\ UNCHANGED <<db, txvars, classifications, leave_requests, seniority_date,
                 current_year, users>>

\* the UPDATE of the waiting call runs and the handler returns
cancel_event_update(p) ==
  /\ call[p].op = "cancel_event"
  /\ LET e == call[p].event_id IN
       IF cancel_where(e, call[p].caller.org_id)
         THEN /\ \A q \in Txs : ~HoldsEventLock(q, e)
              /\ events' = [events EXCEPT ![e].status = "cancelled"]
              /\ EndCall(p, "ok")
         ELSE /\ EndCall(p, "NotFound")
              /\ UNCHANGED events
  /\ UNCHANGED <<attempts, assignments, ot_hours, txvars, classifications,
                 leave_requests, seniority_date, current_year, users>>

\* the state after create_event has stored MaxEvents open events for the
\* shift "s1" and returned
InitFair ==
  /\ events = [e \in 1..MaxEvents |-> [scheduled_shift_id |-> "s1", status |-> "open"]]
  /\ attempts = << >>
  /\ assignments = EmptyBag
  /\ ot_hours = [k \in UserIds \X Years |-> NoRow]
  /\ pc = [p \in Txs |-> "idle"]
  /\ req = [p \in Txs |-> NoReq]
  /\ loc = [p \in Txs |-> NoLoc]
  /\ lastOp = "ok"
  /\ lastList = << >>
  /\ classifications = << >>
  /\ leave_requests = {}
  /\ seniority_date = [u1 |-> 2010, u2 |-> 2015, u3 |-> 2012, u4 |-> 2011, u5 |-> NullDate]
  /\ current_year = 2026
  /\ users = [u \in UserIds |-> [role |-> RoleTable[u], is_active |-> UserTable[u].is_active]]
  /\ call = [p \in Txs |-> NoCall]

\* record_attempt requests that reach the event row: every response for one
\* user, and a user that fails the user check
FairAttemptRequests ==
  {rq \in AttemptRequests :
     /\ rq.caller = Supervisor
     /\ rq.response \in Responses
     /\ rq.user_id \in {"u1", "u3"}}

NextFair ==
  \/ \E p \in Txs, rq \in FairAttemptRequests, e \in 1..Len(events) :
       record_attempt_begin(p, rq.caller, e, rq.user_id, rq.response)
  \/ \E p \in Txs : record_attempt_lock(p)
  \/ \E p \in Txs : record_attempt_assign(p)
  \/ \E p \in Txs : record_attempt_upsert(p)
  \/ \E p \in Txs : record_attempt_commit(p)
  \/ \E p \in Txs : record_attempt_abort(p)
  \/ \E p \in Txs, e \in 1..Len(events) : cancel_event_call(p, Supervisor, e)
  \/ \E p \in Txs : cancel_event_update(p)

\* A statement that waits for a row lock is queued by the lock manager and
\* served when the holder ends, before later arrivals: a step that is enabled
\* again and again is taken (strong fairness). A commit never waits. Nothing
\* makes a statement fail, so the abort step has no fairness condition.
FairSpec ==
  /\ InitFair
  /\ [][NextFair]_vars
  /\ \A p \in Txs :
       /\ SF_vars(record_attempt_lock(p))
       /\ SF_vars(record_attempt_assign(p))
       /\ SF_vars(record_attempt_upsert(p))
       /\ WF_vars(record_attempt_commit(p))
       /\ SF_vars(cancel_event_update(p))

\* --------------------------------------- leave::create, leave::review, leave::cancel
\* No handler opens a transaction: every query is a statement of its own.
\* what the handlers of leave.rs never write
not_leave == <<db, txvars, classifications, seniority_date, current_year, users>>

\* leave_types: (org_id, is_active); "t0" is an id with no row
LeaveTypeTable ==
  [t1 |-> [org_id |-> "A", is_active |-> TRUE],
   t2 |-> [org_id |-> "B", is_active |-> TRUE]]

\* leave::create requests: ranges of days of 2026 that overlap (the second
\* starts on the last day of the first), a range apart from both and one that
\* ends before it starts, with the leave type of organization "A"; one
\* request with the leave type of organization "B"
CreateLeaveRequests ==
  [leave_type_id : {"t1"},
   start_date : {[year |-> 2026, day |-> 10]}, end_date : {[year |-> 2026, day |-> 20]}]
    \cup [leave_type_id : {"t1", "t2"},
          start_date : {[year |-> 2026, day |-> 20]}, end_date : {[year |-> 2026, day |-> 30]}]
    \cup [leave_type_id : {"t1"},
          start_date : {[year |-> 2026, day |-> 31]}, end_date : {[year |-> 2026, day |-> 40]}]
    \cup [leave_type_id : {"t1"},
          start_date : {[year |-> 2026, day |-> 20]}, end_date : {[year |-> 2026, day |-> 10]}]

LeaveStatuses == {"pending", "approved", "denied", "cancelled"}

can_approve_leave(role) == role \in {"admin", "supervisor"}

\* the row with the given id, if there is one
LeaveRow(id) == {lr \in leave_requests : lr.id = id}

\* SELECT EXISTS(SELECT 1 FROM leave_requests WHERE user_id = $1
\*   AND status IN ('pending', 'approved') AND start_date <= $3 AND end_date >= $2)
overlap(u, start_date, end_date) ==
  \E lr \in leave_requests :
    /\ lr.user_id = u
    /\ lr.status \in {"pending", "approved"}
    /\ DateLE(lr.start_date, end_date)
    /\ DateLE(start_date, lr.end_date)

\* rows of leave_requests written or about to be written
LeaveInFlight ==
  Cardinality(leave_requests) + Cardinality({q \in Txs : call[q] # NoCall})

\* the date check, the leave type check and the overlap check
leave_create_begin(p, caller, rq) ==
  /\ FirstIdle(p)
  /\ LeaveInFlight < MaxLeave
  /\ IF ~DateLE(rq.start_date, rq.end_date)
       THEN EndCall(p, "BadRequest")
       ELSE IF ~( /\ rq.leave_type_id \in DOMAIN LeaveTypeTable
                  /\ LeaveTypeTable[rq.leave_type_id].org_id = caller.org_id
                  /\ LeaveTypeTable[rq.leave_type_id].is_active )
       THEN EndCall(p, "NotFound")
       ELSE IF overlap(caller.id, rq.start_date, rq.end_date)
       THEN EndCall(p, "Conflict")
       ELSE /\ call' = [call EXCEPT ![p] =
                          [op |-> "leave_create", pc |-> "insert", caller |-> caller,
                           start_date |-> rq.start_date, end_date |-> rq.end_date]]
            /\ UNCHANGED <<lastOp, lastList>>
  /\ UNCHANGED <<leave_requests, not_leave>>

\* INSERT INTO leave_requests (.., status) VALUES (.., 'pending'); rows are
\* never deleted, so the number of rows plus one is a fresh id
leave_create_insert(p) ==
  /\ call[p].op = "leave_create" /\ call[p].pc = "insert"
  /\ leave_requests' = leave_requests \cup
       {[id |-> Cardinality(leave_requests) + 1, user_id |-> call[p].caller.id,
         status |-> "pending", start_date |-> call[p].start_date,
         end_date |-> call[p].end_date]}
  /\ EndCall(p, "ok")
  /\ UNCHANGED not_leave

\* UPDATE leave_requests SET status = $2 WHERE id = $1 AND status = 'pending'
\*   AND EXISTS (the row's user in the caller's organization)
leave_review(caller, id, status) ==
  /\ IF ~can_approve_leave(caller.role)
       THEN /\ lastOp' = "Forbidden"
            /\ UNCHANGED leave_requests
       ELSE IF status \notin {"approved", "denied"}
       THEN /\ lastOp' = "BadRequest"
            /\ UNCHANGED leave_requests
       ELSE IF \E lr \in LeaveRow(id) :
                 lr.status = "pending" /\ UserTable[lr.user_id].org_id = caller.org_id
       THEN /\ leave_requests' =
                 {IF lr.id = id THEN [lr EXCEPT !.status = status] ELSE lr : lr \in leave_requests}
            /\ lastOp' = "ok"
       ELSE /\ lastOp' = "NotFound"
            /\ UNCHANGED leave_requests
  /\ lastList' = << >>
  /\ UNCHANGED <<call, not_leave>>

\* UPDATE leave_requests SET status = 'cancelled' WHERE id = $1
\*   AND status IN ('pending', 'approved')
\*   AND EXISTS (the row's user in the caller's organization)
\*   AND ($3 OR leave_requests.user_id = $4)
leave_cancel(caller, id) ==
  /\ IF \E lr \in LeaveRow(id) :
          /\ lr.status \in {"pending", "approved"}
          /\ UserTable[lr.user_id].org_id = caller.org_id
          /\ (can_approve_leave(caller.role) \/ lr.user_id = caller.id)
       THEN /\ leave_requests' =
                 {IF lr.id = id THEN [lr EXCEPT !.status = "cancelled"] ELSE lr :
                    lr \in leave_requests}
            /\ lastOp' = "ok"
       ELSE /\ lastOp' = "NotFound"
            /\ UNCHANGED leave_requests
  /\ lastList' = << >>
  /\ UNCHANGED <<call, not_leave>>

NextLeave ==
  \/ \E p \in Txs, caller \in Callers, rq \in CreateLeaveRequests :
       leave_create_begin(p, caller, rq)
  \/ \E p \in Txs : leave_create_insert(p)
  \/ \E caller \in Callers, id \in 1..MaxLeave, status \in LeaveStatuses \ {"cancelled"} :
       leave_review(caller, id, status)
  \/ \E caller \in Callers, id \in 1..MaxLeave : leave_cancel(caller, id)

LeaveSpec == Init /\ [][NextLeave]_vars

\* ------------------------------------------------ callout_list on its inputs
\* The query is a function of the committed tables and the current date: the
\* second specification starts from every combination of the rows below with
\* one open event on shift "s1" and only runs callout_list.
RankedUsers == Candidates("A")

\* leave_requests rows relative to the date of "s1" (2026, day 200)
LeaveRows ==
  { [id |-> 1, user_id |-> "u1", status |-> "approved",
     start_date |-> [year |-> 2026, day |-> 200], end_date |-> [year |-> 2026, day |-> 200]],
    [id |-> 2, user_id |-> "u1", status |-> "approved",
     start_date |-> [year |-> 2025, day |-> 360], end_date |-> [year |-> 2026, day |-> 199]],
    [id |-> 3, user_id |-> "u2", status |-> "pending",
     start_date |-> [year |-> 2026, day |-> 190], end_date |-> [year |-> 2026, day |-> 210]],
    [id |-> 4, user_id |-> "u5", status |-> "approved",
     start_date |-> [year |-> 2025, day |-> 300], end_date |-> [year |-> 2027, day |-> 10]] }

\* hours_worked of the rows (user, 2026); -1 stands for no row
LedgerChoices ==
  [u1 : {-1, 0, 8}, u2 : {-1, 8}, u5 : {0, 8}]

SeniorityChoices ==
  [u1 : {2010, 2015, NullDate}, u2 : {2010, NullDate}, u3 : {2012}, u4 : {2011},
   u5 : {2015, NullDate}]

LedgerRow(h) == IF h < 0 THEN NoRow ELSE [hours_worked |-> h, hours_declined |-> 0]

InitRanking ==
  /\ events = << [scheduled_shift_id |-> "s1", status |-> "open"] >>
  /\ attempts = << >>
  /\ \E U \in SUBSET RankedUsers :
       assignments = SetToBag({[scheduled_shift_id |-> "s1", user_id |-> u,
                                is_overtime |-> FALSE] : u \in U})
  /\ \E h \in LedgerChoices, next_year \in {-1, 8} :
       ot_hours = [k \in UserIds \X Years |->
                     IF k[1] \in RankedUsers /\ k[2] = 2026 THEN LedgerRow(h[k[1]])
                     ELSE IF k = <<"u1", 2027>> THEN LedgerRow(next_year)
                     ELSE NoRow]
  /\ pc = [p \in Txs |-> "idle"]
  /\ req = [p \in Txs |-> NoReq]
  /\ loc = [p \in Txs |-> NoLoc]
  /\ lastOp = "none"
  /\ lastList = << >>
  /\ classifications = << >>
  /\ leave_requests \in SUBSET LeaveRows
  /\ seniority_date \in SeniorityChoices
  /\ current_year \in Years
  /\ users = [u \in UserIds |-> [role |-> RoleTable[u], is_active |-> UserTable[u].is_active]]
  /\ call = [p \in Txs |-> NoCall]

NextRanking == \E caller \in Callers, e \in 0..Len(events) : callout_list(caller, e)

RankingSpec == InitRanking /\ [][NextRanking]_vars

TypeOK ==
  /\ \A i \in 1..Len(events) : events[i].status \in {"open", "filled", "cancelled"}
  /\ Len(attempts) <= MaxAttempts

\* ================================================================ claims
\* the open transaction of connection p ended in a storage error
Aborted(p) == pc[p] # "idle" /\ pc'[p] = "idle" /\ lastOp' = "Database"
\* the statements of the named step of connection p ran
LockStep(p) == pc[p] = "lock" /\ pc'[p] # "lock" /\ ~Aborted(p)
AssignStep(p) == pc[p] = "assign" /\ pc'[p] # "assign" /\ ~Aborted(p)
CommitStep(p) == pc[p] = "commit" /\ pc'[p] # "commit" /\ ~Aborted(p)
UpsertStep(p) == pc[p] = "upsert" /\ pc'[p] # "upsert" /\ ~Aborted(p)

\* a missing ot_hours row counts as zero
WorkedIn(t, k) == IF t[k] = NoRow THEN 0 ELSE t[k].hours_worked
DeclinedIn(t, k) == IF t[k] = NoRow THEN 0 ELSE t[k].hours_declined

ReqShift(p) == events[req[p].event_id].scheduled_shift_id
\* the ot_hours key of the request: (contacted user, calendar year of the shift's date)
ReqKey(p) == <<req[p].user_id, ShiftTable[ReqShift(p)].date.year>>

AcceptedAttempts(e) ==
  {i \in 1..Len(attempts) : attempts[i].event_id = e /\ attempts[i].response = "accepted"}

\* ---- C1
\* C1: of the record_attempt calls with response "accepted" that run
\* concurrently against one open event only one holds the event at a time and
\* only one commits, moving the event from open to filled; a call that gets
\* the event after that fails with Conflict and leaves every table as it was.
C1_OneHolderOneAccept ==
  \A e \in 1..Len(events) :
    /\ Cardinality({p \in Txs : HoldsEventLock(p, e)}) <= 1
    /\ Cardinality(AcceptedAttempts(e)) <= 1

C1_Step ==
  \A p \in Txs :
    /\ ( /\ LockStep(p)
         /\ req[p].response = "accepted"
         /\ events[req[p].event_id].status = "filled"
         /\ EventOrg(req[p].event_id) = req[p].caller.org_id )
       => (lastOp' = "Conflict" /\ pc'[p] = "idle" /\ db' = db)
    /\ (CommitStep(p) /\ req[p].response = "accepted")
       => ( /\ events[req[p].event_id].status = "open"
            /\ events'[req[p].event_id].status = "filled"
            /\ lastOp' = "ok" )

C1_ExactlyOneAccept == []C1_OneHolderOneAccept /\ [][C1_Step]_vars

\* two accepting calls for valid users are in flight on the same event: one
\* is about to commit, the other waits for the event row
C1_Witness ==
  \E p, q \in Txs :
    /\ p # q
    /\ pc[q] = "commit" /\ req[q].response = "accepted"
    /\ pc[p] = "lock" /\ req[p].response = "accepted"
    /\ req[p].event_id = req[q].event_id
    /\ record_attempt_check(req[p]) = "ok"

\* ---- C2
\* C2: an event is created open; each step leaves an event's status alone or
\* takes it from open to filled or from open to cancelled, so a filled or
\* cancelled event never changes again and none is both filled and cancelled.
C2_Step ==
  /\ Len(events') >= Len(events)
  /\ \A e \in 1..Len(events') :
       IF e \in 1..Len(events)
         THEN /\ events'[e].scheduled_shift_id = events[e].scheduled_shift_id
              /\ events[e].status # "open" => events'[e].status = events[e].status
              /\ events'[e].status \in {events[e].status, "filled", "cancelled"}
         ELSE events'[e].status = "open"

C2_OneTerminalTransition == [][C2_Step]_vars

\* one event was filled by record_attempt and another cancelled by cancel_event
C2_Witness ==
  \E e, f \in 1..Len(events) :
    events[e].status = "filled" /\ events[f].status = "cancelled"

\* ---- C3
\* C3: when record_attempt of a caller of the event's organization reads an
\* event that is filled or cancelled, it fails with Conflict whatever the
\* response and the user, and the events, attempts, assignments and ledger
\* are the same afterwards.
C3_Step ==
  \A p \in Txs :
    ( /\ LockStep(p)
      /\ events[req[p].event_id].status \in {"filled", "cancelled"}
      /\ EventOrg(req[p].event_id) = req[p].caller.org_id )
    => (lastOp' = "Conflict" /\ pc'[p] = "idle" /\ loc'[p] = NoLoc /\ db' = db)

C3_ClosedEventConflict == [][C3_Step]_vars

\* record_attempt has just answered Conflict (no other handler does) and a
\* cancelled event exists
C3_Witness ==
  /\ lastOp = "Conflict"
  /\ \E e \in 1..Len(events) : events[e].status = "cancelled"

\* ---- C4
\* C4: the list_position values of an event's attempts, in commit order, are
\* 1, 2, .., n: each attempt got the number of earlier attempts plus one.
C4_PositionsGapless ==
  \A e \in 1..Len(events) :
    \A i \in 1..Len(AttemptsOf(e)) : AttemptsOf(e)[i].list_position = i

\* attempts exist on two events, one of them with two attempts or each with one
C4_Witness ==
  /\ Len(attempts) >= 2
  /\ \E i, j \in 1..Len(attempts) : attempts[i].event_id # attempts[j].event_id

\* ---- C5
\* C5: the commit of an accepted attempt sets the event to filled and adds
\* duration_minutes / 60 to hours_worked of the row (user, year of the
\* shift's date), which exists afterwards; hours_declined of that row and
\* every other row keep their values.
C5_Step ==
  \A p \in Txs :
    (CommitStep(p) /\ req[p].response = "accepted")
    => /\ events'[req[p].event_id].status = "filled"
       /\ ot_hours'[ReqKey(p)] # NoRow
       /\ 60 * (ot_hours'[ReqKey(p)].hours_worked - WorkedIn(ot_hours, ReqKey(p)))
            = ShiftTable[ReqShift(p)].duration_minutes
       /\ ot_hours'[ReqKey(p)].hours_declined = DeclinedIn(ot_hours, ReqKey(p))
       /\ \A k \in DOMAIN ot_hours : k # ReqKey(p) => ot_hours'[k] = ot_hours[k]

C5_AcceptedAccumulates == [][C5_Step]_vars

\* a user accepted twice: the second acceptance found the row of the first
C5_Witness ==
  \E k \in DOMAIN ot_hours :
    /\ ot_hours[k] # NoRow
    /\ ot_hours[k].hours_worked = 2 * (ShiftTable["s1"].duration_minutes \div 60)
    /\ \E e \in 1..Len(events) : AcceptedAttempts(e) # {}

\* ---- C6
\* C6 as stated: after the commit of an accepted attempt an assignment row
\* for (shift, user) exists and is flagged as overtime.
C6_Original_Step ==
  \A p \in Txs :
    (CommitStep(p) /\ req[p].response = "accepted")
    => \E a \in BagToSet(assignments') :
         /\ a.scheduled_shift_id = ReqShift(p)
         /\ a.user_id = req[p].user_id
         /\ a.is_overtime

C6_Original == [][C6_Original_Step]_vars

\* C6 amended: the INSERT of an accepted attempt adds a row exactly when no
\* committed row has the (shift, user) key; if it added one, then after the
\* commit a row for the key exists that is flagged as overtime, and if it
\* did not, the commit leaves the assignments as they are.
C6_Amended_Step ==
  \A p \in Txs :
    /\ AssignStep(p)
       => /\ loc'[p].assign_inserted <=> AssignmentRows(ReqShift(p), req[p].user_id) = {}
          /\ loc'[p].assign_skipped <=> AssignmentRows(ReqShift(p), req[p].user_id) # {}
    /\ (CommitStep(p) /\ req[p].response = "accepted")
       => IF loc[p].assign_inserted
            THEN /\ assignments' = assignments (+)
                      SetToBag({[scheduled_shift_id |-> ReqShift(p),
                                 user_id |-> req[p].user_id, is_overtime |-> TRUE]})
                 /\ AssignmentRows(ReqShift(p), req[p].user_id) = {}
            ELSE assignments' = assignments

C6_Amended == [][C6_Amended_Step]_vars

\* an accepted attempt is committed whose user keeps a row that is not overtime
C6_Witness ==
  \E i \in 1..Len(attempts) :
    /\ attempts[i].response = "accepted"
    /\ BagIn([scheduled_shift_id |-> events[attempts[i].event_id].scheduled_shift_id,
              user_id |-> attempts[i].user_id, is_overtime |-> FALSE], assignments)

\* ---- C7
\* C7: no two assignment rows have the same (scheduled shift, user); the
\* INSERT of an accepted attempt that finds a row for the key goes on to the
\* next statement without an error, and the call commits with result ok and
\* the assignments unchanged.
C7_NoDuplicate ==
  \A a \in BagToSet(assignments) :
    /\ CopiesIn(a, assignments) = 1
    /\ AssignmentRows(a.scheduled_shift_id, a.user_id) = {a}

C7_Step ==
  \A p \in Txs :
    /\ AssignStep(p)
       => /\ pc'[p] = "upsert"
          /\ lastOp' = lastOp
          /\ AssignmentRows(ReqShift(p), req[p].user_id) # {} => loc'[p].assign_skipped
    /\ (CommitStep(p) /\ loc[p].assign_skipped)
       => (assignments' = assignments /\ lastOp' = "ok")

C7_AssignmentIdempotent == []C7_NoDuplicate /\ [][C7_Step]_vars

\* the same user was accepted on two events of one shift and has one row
C7_Witness ==
  \E i, j \in 1..Len(attempts) :
    /\ i # j
    /\ attempts[i].response = "accepted" /\ attempts[j].response = "accepted"
    /\ attempts[i].user_id = attempts[j].user_id
    /\ events[attempts[i].event_id].scheduled_shift_id
         = events[attempts[j].event_id].scheduled_shift_id
    /\ Cardinality(AssignmentRows(events[attempts[i].event_id].scheduled_shift_id,
                                  attempts[i].user_id)) = 1

\* ---- C8
\* C8: the commit of a declined attempt adds duration_minutes / 60 to
\* hours_declined of the row (user, year of the shift's date) and leaves
\* hours_worked of that row, the other rows, the events and the assignments
\* as they are.
C8_Step ==
  \A p \in Txs :
    (CommitStep(p) /\ req[p].response = "declined")
    => /\ ot_hours'[ReqKey(p)] # NoRow
       /\ 60 * (ot_hours'[ReqKey(p)].hours_declined - DeclinedIn(ot_hours, ReqKey(p)))
            = ShiftTable[ReqShift(p)].duration_minutes
       /\ ot_hours'[ReqKey(p)].hours_worked = WorkedIn(ot_hours, ReqKey(p))
       /\ \A k \in DOMAIN ot_hours : k # ReqKey(p) => ot_hours'[k] = ot_hours[k]
       /\ events' = events
       /\ events[req[p].event_id].status = "open"
       /\ assignments' = assignments

C8_DeclinedAccumulates == [][C8_Step]_vars

\* a user declined twice: the second decline found the row of the first
C8_Witness ==
  \E k \in DOMAIN ot_hours :
    /\ ot_hours[k] # NoRow
    /\ ot_hours[k].hours_declined = 2 * (ShiftTable["s1"].duration_minutes \div 60)
    /\ \E i \in 1..Len(attempts) : attempts[i].response = "declined"

\* ---- C9
\* C9: the commit of a no_answer attempt appends the attempt row and leaves
\* the events (the event stays open), the ledger and the assignments as
\* they are.
C9_Step ==
  \A p \in Txs :
    (CommitStep(p) /\ req[p].response = "no_answer")
    => /\ attempts' = Append(attempts, AttemptRow(p))
       /\ events' = events
       /\ events[req[p].event_id].status = "open"
       /\ ot_hours' = ot_hours
       /\ assignments' = assignments

C9_NoAnswerOnlyAttempt == [][C9_Step]_vars

\* a no_answer attempt is committed
C9_Witness == \E i \in 1..Len(attempts) : attempts[i].response = "no_answer"

\* ---- C10
\* hours of the first n committed attempts of user u with response r on
\* shifts dated in year y
RECURSIVE CommittedHours(_, _, _, _)
CommittedHours(n, u, y, r) ==
  IF n = 0 THEN 0
  ELSE CommittedHours(n - 1, u, y, r)
       + (IF /\ attempts[n].user_id = u
             /\ attempts[n].response = r
             /\ fiscal_year(attempts[n].event_id) = y
            THEN shift_hours(attempts[n].event_id) ELSE 0)

\* C10: in every state, whatever the order and overlap of the calls, a
\* user's hours_worked and hours_declined are the initial zero plus the hours
\* of all of the user's committed accepted and declined attempts: no update
\* is lost or touched by the updates for other users.
C10_NoLostUpdate ==
  \A k \in DOMAIN ot_hours :
    /\ WorkedIn(ot_hours, k) = CommittedHours(Len(attempts), k[1], k[2], "accepted")
    /\ DeclinedIn(ot_hours, k) = CommittedHours(Len(attempts), k[1], k[2], "declined")

\* two calls on different events for one user overlapped (the later one took
\* its snapshot before the earlier one committed its hours) and both count
C10_Witness ==
  \E i, j \in 1..Len(attempts) :
    /\ i < j
    /\ attempts[i].user_id = attempts[j].user_id
    /\ attempts[i].event_id # attempts[j].event_id
    /\ attempts[i].response = "accepted" /\ attempts[j].response = "accepted"
    /\ attempts[j].ot_hours_at_contact = 0
    /\ WorkedIn(ot_hours, <<attempts[i].user_id, fiscal_year(attempts[i].event_id)>>)
         = shift_hours(attempts[i].event_id) + shift_hours(attempts[j].event_id)

\* ---- C11
\* C11 as stated: cancel_event by a caller who may manage schedules on an
\* event of the caller's organization that is filled or cancelled answers
\* Conflict and leaves the events as they are.
C11_Original_Step ==
  \A caller \in Callers, e \in 1..Len(events) :
    ( /\ can_manage_schedule(caller.role)
      /\ EventOrg(e) = caller.org_id
      /\ events[e].status \in {"filled", "cancelled"}
      /\ cancel_event(caller, e) )
    => (lastOp' = "Conflict" /\ events' = events)

C11_Original == [][C11_Original_Step]_vars

\* ---- C12 .. C15: the list callout_list has just returned
\* the shift of the event the list was computed for
ListedShift == events[1].scheduled_shift_id
ListedDate == ShiftTable[ListedShift].date

\* the user has an assignments row for the listed shift
HasAssignment(u) ==
  \E a \in BagToSet(assignments) : a.user_id = u /\ a.scheduled_shift_id = ListedShift

\* the user has an approved leave request whose range holds the shift's date
HasApprovedLeave(u) ==
  \E lr \in leave_requests :
    /\ lr.user_id = u /\ lr.status = "approved"
    /\ DateLE(lr.start_date, ListedDate) /\ DateLE(ListedDate, lr.end_date)

Available(u) == ~HasAssignment(u) /\ ~HasApprovedLeave(u)

\* hours_worked of the user's ledger row of the current year, 0 without a row
CurrentYearHours(u) == WorkedIn(ot_hours, <<u, current_year>>)

\* C12: in the list callout_list returned, every employee who is available
\* (no assignment on the shift, no approved leave over its date) stands
\* before every employee who is not, whatever their hours and seniority.
C12_AvailableFirst ==
  \A i, j \in 1..Len(lastList) :
    (Available(lastList[i].user_id) /\ ~Available(lastList[j].user_id)) => i < j

\* a list in which an unavailable employee with fewer hours and an earlier
\* seniority date stands behind an available one
C12_Witness ==
  \E i, j \in 1..Len(lastList) :
    /\ i < j
    /\ Available(lastList[i].user_id) /\ ~Available(lastList[j].user_id)
    /\ CurrentYearHours(lastList[j].user_id) < CurrentYearHours(lastList[i].user_id)
    /\ seniority_date[lastList[j].user_id] # NullDate
    /\ seniority_date[lastList[i].user_id] = NullDate

\* ---- C13
\* C13: in the list callout_list returned, of two employees with the same
\* availability the one with fewer hours worked in the current year stands
\* first; with the same availability and hours, the one with the earlier
\* seniority date stands first and one without a date stands behind every
\* one that has a date.
C13_HoursThenSeniority ==
  \A i, j \in 1..Len(lastList) :
    LET u == lastList[i].user_id
        v == lastList[j].user_id IN
      (Available(u) = Available(v)) =>
        /\ CurrentYearHours(u) < CurrentYearHours(v) => i < j
        /\ ( /\ CurrentYearHours(u) = CurrentYearHours(v)
             /\ seniority_date[u] # NullDate
             /\ (seniority_date[v] = NullDate \/ seniority_date[u] < seniority_date[v]) )
           => i < j

\* a list of three employees with the same availability: the first has fewer
\* hours than the other two, who are tied on hours; of those the one with a
\* seniority date stands before the one without
C13_Witness ==
  /\ Len(lastList) = 3
  /\ \A i \in 1..3 : Available(lastList[i].user_id) = Available(lastList[1].user_id)
  /\ CurrentYearHours(lastList[1].user_id) < CurrentYearHours(lastList[2].user_id)
  /\ CurrentYearHours(lastList[2].user_id) = CurrentYearHours(lastList[3].user_id)
  /\ seniority_date[lastList[2].user_id] # NullDate
  /\ seniority_date[lastList[3].user_id] = NullDate
  /\ seniority_date[lastList[1].user_id] = NullDate

\* ---- C14
\* C14 as stated: a call of callout_list that follows another one for the
\* same event, with nothing changed in between, returns the same list.
C14_Original_Step ==
  (lastOp = "ok" /\ lastList # << >> /\ lastOp' = "ok" /\ lastList' # << >>
     /\ <<db, aux>>' = <<db, aux>>)
  => lastList' = lastList

C14_Original == [][C14_Original_Step]_vars

\* ---- C15
\* C15: every entry of the list callout_list returned is flagged unavailable
\* exactly when its employee has an assignment on the shift or an approved
\* leave request over the shift's date; the reason is 'Already scheduled'
\* when there is an assignment (with or without leave), 'On approved leave'
\* when there is only the leave, and NULL for an available employee.
C15_AvailabilityAndReason ==
  \A i \in 1..Len(lastList) :
    LET u == lastList[i].user_id IN
      /\ lastList[i].is_available <=> ~(HasAssignment(u) \/ HasApprovedLeave(u))
      /\ lastList[i].unavailable_reason =
           (IF HasAssignment(u) THEN "Already scheduled"
            ELSE IF HasApprovedLeave(u) THEN "On approved leave"
            ELSE NullReason)

\* a list with an employee who is assigned and on leave, one who is only on
\* leave, and one who has a pending request only and is available
C15_Witness ==
  \E i, j, k \in 1..Len(lastList) :
    /\ HasAssignment(lastList[i].user_id) /\ HasApprovedLeave(lastList[i].user_id)
    /\ ~HasAssignment(lastList[j].user_id) /\ HasApprovedLeave(lastList[j].user_id)
    /\ lastList[k].is_available
    /\ \E lr \in leave_requests : lr.user_id = lastList[k].user_id /\ lr.status = "pending"

\* ---- C16
\* C16 as stated: the list_position a call of record_attempt stores is the
\* position the contacted user has in a list callout_list returns for the
\* event at that moment.
C16_Original_Step ==
  \A p \in Txs :
    (LockStep(p) /\ pc'[p] # "idle")
    => \E f \in Rankings(ReqShift(p), req[p].caller.org_id) :
         /\ loc'[p].position \in 1..Len(f)
         /\ f[loc'[p].position] = req[p].user_id

C16_Original == [][C16_Original_Step]_vars

\* C16 amended: the list_position a call of record_attempt stores is one more
\* than the number of attempts the event has when the call holds the event
\* row, whatever position the contacted user has in the callout list; the
\* committed row carries that number.
C16_Amended_Step ==
  \A p \in Txs :
    /\ (LockStep(p) /\ pc'[p] # "idle")
       => loc'[p].position =
            1 + Cardinality({i \in 1..Len(attempts) : attempts[i].event_id = req[p].event_id})
    /\ CommitStep(p)
       => /\ attempts'[Len(attempts')].list_position = loc[p].position
          /\ loc[p].position =
               1 + Cardinality({i \in 1..Len(attempts) : attempts[i].event_id = req[p].event_id})

C16_Amended == [][C16_Amended_Step]_vars

\* a committed no_answer attempt whose list_position is the position of
\* another user in every list callout_list can return
C16_Witness ==
  \E i \in 1..Len(attempts) :
    /\ attempts[i].response = "no_answer"
    /\ \A f \in Rankings(events[attempts[i].event_id].scheduled_shift_id, "A") :
         f[attempts[i].list_position] # attempts[i].user_id

\* ---- C17
\* rows of callout_attempts are only ever appended
AttemptsKept ==
  /\ Len(attempts') >= Len(attempts)
  /\ \A i \in 1..Len(attempts) : attempts'[i] = attempts[i]

\* C17 as stated: ot_hours_at_contact is the hours_worked the ledger row of
\* (user, year of the shift) has when the call makes its own ledger update
\* (0 without a row), and stored attempts never change.
C17_Original_Step ==
  /\ AttemptsKept
  /\ \A p \in Txs :
       UpsertStep(p) => loc[p].ot_snapshot = WorkedIn(ot_hours, ReqKey(p))

C17_Original == [][C17_Original_Step]_vars

\* C17 amended: ot_hours_at_contact is the committed hours_worked of the
\* ledger row of (user, year of the shift) at the moment the call reads it,
\* right after it got the event row and before its own ledger update (0
\* without a row); it is never more than the value its own update starts
\* from, and can be less when a call on another event for the same user
\* commits in between. The committed row carries the value read, and stored
\* attempts never change.
C17_Amended_Step ==
  /\ AttemptsKept
  /\ \A p \in Txs :
       /\ (LockStep(p) /\ pc'[p] # "idle")
          => loc'[p].ot_snapshot = WorkedIn(ot_hours, ReqKey(p))
       /\ UpsertStep(p) => loc[p].ot_snapshot <= WorkedIn(ot_hours, ReqKey(p))
       /\ CommitStep(p)
          => attempts'[Len(attempts')].ot_hours_at_contact = loc[p].ot_snapshot

C17_Amended == [][C17_Amended_Step]_vars

\* a declined attempt stored 0 although an acceptance of the same user was
\* committed before it: the two calls overlapped
C17_Witness ==
  \E i, j \in 1..Len(attempts) :
    /\ i < j
    /\ attempts[i].user_id = attempts[j].user_id
    /\ attempts[i].response = "accepted"
    /\ attempts[j].response = "declined"
    /\ attempts[j].ot_hours_at_contact = 0

\* ---- C18
\* the user of the request has no row, is inactive or is of another
\* organization than the caller
InvalidTarget(rq) ==
  \/ rq.user_id \notin UserIds
  \/ ~UserTable[rq.user_id].is_active
  \/ UserTable[rq.user_id].org_id # rq.caller.org_id

\* C18: when record_attempt of a caller of the event's organization reads an
\* open event and the target user is missing, inactive or of another
\* organization, it answers NotFound and the attempts, events, ledger and
\* assignments are the same afterwards: no attempt row is left.
C18_Step ==
  \A p \in Txs :
    ( /\ LockStep(p)
      /\ events[req[p].event_id].status = "open"
      /\ EventOrg(req[p].event_id) = req[p].caller.org_id
      /\ InvalidTarget(req[p]) )
    => ( /\ lastOp' = "NotFound"
         /\ pc'[p] = "idle"
         /\ attempts' = attempts
         /\ events' = events
         /\ ot_hours' = ot_hours
         /\ assignments' = assignments )

C18_InvalidUserNotFound == [][C18_Step]_vars

\* calls for an inactive user and for a user of another organization wait
\* for the row of the same open event of the caller's organization, and a
\* call has just been answered NotFound
C18_Witness ==
  /\ lastOp = "NotFound"
  /\ \E p, q \in Txs :
       /\ pc[p] = "lock" /\ pc[q] = "lock"
       /\ req[p].event_id = req[q].event_id
       /\ events[req[p].event_id].status = "open"
       /\ EventOrg(req[p].event_id) = req[p].caller.org_id
       /\ req[p].user_id \in UserIds /\ ~UserTable[req[p].user_id].is_active
       /\ req[q].user_id \in UserIds /\ UserTable[req[q].user_id].org_id # req[q].caller.org_id

\* ---- C19
\* everything the committed call of connection p was to write is in the tables
AllEffects(p) ==
  /\ attempts' = Append(attempts, AttemptRow(p))
  /\ (req[p].response = "accepted") =>
       ( /\ events'[req[p].event_id].status = "filled"
         /\ WorkedIn(ot_hours', ReqKey(p))
              = WorkedIn(ot_hours, ReqKey(p)) + shift_hours(req[p].event_id)
         /\ loc[p].assign_inserted =>
              BagIn([scheduled_shift_id |-> ReqShift(p), user_id |-> req[p].user_id,
                     is_overtime |-> TRUE], assignments') )
  /\ (req[p].response = "declined") =>
       ( DeclinedIn(ot_hours', ReqKey(p))
           = DeclinedIn(ot_hours, ReqKey(p)) + shift_hours(req[p].event_id) )

\* C19: a step of record_attempt that does not end in a successful commit
\* (a refused request, a failed check, a statement of the open transaction
\* whether it goes on or fails, a failed commit, a dropped request) leaves
\* events, attempts, assignments and ledger as they were; the step that
\* commits makes all writes of the call visible at once.
C19_Step ==
  \A p \in Txs :
    /\ (pc[p] # "idle" /\ pc'[p] # pc[p])
       => IF pc'[p] = "idle" /\ lastOp' = "ok" THEN AllEffects(p) ELSE db' = db
    /\ (pc[p] = "idle" /\ db' # db)
       => \A rq \in AttemptRequests, e \in 0..Len(events) :
            ~record_attempt_begin(p, rq.caller, e, rq.user_id, rq.response)

C19_AllOrNothing == [][C19_Step]_vars

\* a transaction has just been rolled back after a storage error while the
\* other connection is about to commit an acceptance, and no attempt is stored
C19_Witness ==
  /\ lastOp = "Database"
  /\ attempts = << >>
  /\ \A e \in 1..Len(events) : events[e].status = "open"
  /\ \E q \in Txs : pc[q] = "commit" /\ req[q].response = "accepted"

\* ---- C20
\* the handler answered Forbidden and wrote nothing
Refused == lastOp' = "Forbidden" /\ db' = db /\ classifications' = classifications

\* C20 as stated: create_event, callout_list, record_attempt and cancel_event
\* called by a role that may not manage schedules, and classifications::create
\* called by a role that is not admin, answer Forbidden and change no table.
C20_Original_Step ==
  /\ \A c \in Callers :
       ~can_manage_schedule(c.role) =>
         /\ \A rq \in EventRequests :
              (rq.caller = c /\ create_event(c, rq.scheduled_shift_id, rq.ot_reason_id,
                                             rq.classification_id)) => Refused
         /\ \A e \in 0..Len(events) : callout_list(c, e) => Refused
         /\ \A e \in 0..Len(events) : cancel_event(c, e) => Refused
         /\ \A p \in Txs, rq \in AttemptRequests, e \in 0..Len(events) :
              (rq.caller = c /\ record_attempt_begin(p, c, e, rq.user_id, rq.response))
              => Refused
  /\ \A rq \in ClassificationRequests :
       (~is_admin(rq.caller.role) /\ create_classification(rq)) => Refused

C20_Original == [][C20_Original_Step]_vars

\* ---- C21
\* the referenced row does not exist or belongs to another organization
ShiftOutside(s, org) == s \notin ShiftIds \/ ShiftTable[s].org_id # org
ReasonOutside(r, org) == r \notin ReasonIds \/ ReasonTable[r].org_id # org
ClassificationOutside(c, org) ==
  c \notin 1..Len(classifications) \/ classifications[c].org_id # org
UserOutside(u, org) == u \notin UserIds \/ UserTable[u].org_id # org
EventOutside(e, org) ==
  e \notin 1..Len(events) \/ ShiftTable[events[e].scheduled_shift_id].org_id # org

\* the handler answered NotFound, with no list, and wrote nothing
NotFoundUnchanged ==
  /\ lastOp' = "NotFound"
  /\ lastList' = << >>
  /\ db' = db
  /\ classifications' = classifications

\* C21: create_event, callout_list, record_attempt and cancel_event called
\* with the needed capability answer NotFound and change nothing when the
\* shift, reason, classification, event or target user they refer to has no
\* row and, in the same way, when its row belongs to another organization
\* than the caller's: the answer does not tell the two cases apart.
C21_Step ==
  /\ (txvars' = txvars /\ Len(events) < MaxEvents /\ ~NotFoundUnchanged)
     => \A rq \in EventRequests :
          ( /\ can_manage_schedule(rq.caller.role)
            /\ \/ ShiftOutside(rq.scheduled_shift_id, rq.caller.org_id)
               \/ (rq.ot_reason_id # NoReason /\ ReasonOutside(rq.ot_reason_id, rq.caller.org_id))
               \/ ( /\ rq.classification_id # NoClassification
                    /\ ClassificationOutside(rq.classification_id, rq.caller.org_id) ) )
          => ~create_event(rq.caller, rq.scheduled_shift_id, rq.ot_reason_id,
                           rq.classification_id)
  /\ (txvars' = txvars /\ ~NotFoundUnchanged)
     => \A c \in Callers, e \in 0..Len(events) :
          (can_manage_schedule(c.role) /\ EventOutside(e, c.org_id))
          => (~callout_list(c, e) /\ ~cancel_event(c, e))
  /\ \A p \in Txs :
       /\ (pc[p] = "idle" /\ ~(NotFoundUnchanged /\ pc'[p] = "idle"))
          => \A rq \in AttemptRequests, e \in 0..Len(events) :
               ( /\ can_manage_schedule(rq.caller.role)
                 /\ rq.response \in Responses
                 /\ e \notin 1..Len(events) )
               => ~record_attempt_begin(p, rq.caller, e, rq.user_id, rq.response)
       /\ (LockStep(p) /\ EventOutside(req[p].event_id, req[p].caller.org_id))
          => (NotFoundUnchanged /\ pc'[p] = "idle")
       /\ ( /\ LockStep(p)
            /\ ~EventOutside(req[p].event_id, req[p].caller.org_id)
            /\ events[req[p].event_id].status = "open"
            /\ UserOutside(req[p].user_id, req[p].caller.org_id) )
          => (NotFoundUnchanged /\ pc'[p] = "idle")

C21_ForeignAsMissing == [][C21_Step]_vars

\* a call was answered NotFound while a classification of organization "B"
\* is stored, an event of organization "A" exists, and a record_attempt of a
\* caller of "B" is about to read that event
C21_Witness ==
  /\ lastOp = "NotFound"
  /\ \E c \in 1..Len(classifications) : classifications[c].org_id = "B"
  /\ \E p \in Txs :
       /\ pc[p] = "lock"
       /\ req[p].caller.org_id = "B"
       /\ EventOrg(req[p].event_id) = "A"

\* ---- C22
\* the rows of the tables that differ between the two states of a step all
\* belong to organization org
ChangesWithin(org) ==
  /\ \A e \in 1..Len(events') :
       (e > Len(events) \/ events'[e] # events[e])
       => ShiftTable[events'[e].scheduled_shift_id].org_id = org
  /\ \A i \in 1..Len(attempts') :
       (i > Len(attempts) \/ attempts'[i] # attempts[i])
       => /\ ShiftTable[events'[attempts'[i].event_id].scheduled_shift_id].org_id = org
          /\ UserTable[attempts'[i].user_id].org_id = org
  /\ \A a \in BagToSet(assignments) \cup BagToSet(assignments') :
       CopiesIn(a, assignments') # CopiesIn(a, assignments)
       => /\ ShiftTable[a.scheduled_shift_id].org_id = org
          /\ UserTable[a.user_id].org_id = org
  /\ \A k \in DOMAIN ot_hours :
       ot_hours'[k] # ot_hours[k] => UserTable[k[1]].org_id = org
  /\ \A c \in 1..Len(classifications') :
       (c > Len(classifications) \/ classifications'[c] # classifications[c])
       => classifications'[c].org_id = org

\* C22: the lists of events, classifications and users a caller gets hold
\* rows of the caller's organization only, and a step of create_event,
\* cancel_event, record_attempt or classifications::create changes events,
\* attempts, assignments, ledger rows and classifications of the caller's
\* organization only.
C22_Step ==
  /\ (db' = db /\ classifications' = classifications /\ lastList' # << >>)
     => \A c \in Callers :
          /\ \/ \A i \in 1..Len(lastList') :
                  /\ "status" \in DOMAIN lastList'[i]
                  /\ ShiftTable[lastList'[i].scheduled_shift_id].org_id = c.org_id
             \/ ~list_events(c)
          /\ \/ \A i \in 1..Len(lastList') :
                  /\ "name_len" \in DOMAIN lastList'[i]
                  /\ lastList'[i].org_id = c.org_id
             \/ ~list_classifications(c)
          /\ \/ \A i \in 1..Len(lastList') :
                  /\ "role" \in DOMAIN lastList'[i]
                  /\ UserTable[lastList'[i].id].org_id = c.org_id
             \/ \A include_inactive \in BOOLEAN : ~list_users(c, include_inactive)
  /\ (db' # db \/ classifications' # classifications)
     => /\ \A p \in Txs : pc[p] # pc'[p] => ChangesWithin(req[p].caller.org_id)
        /\ \A c \in Callers :
             ChangesWithin(c.org_id) \/ \A e \in 0..Len(events) : ~cancel_event(c, e)
        /\ \A rq \in EventRequests :
             \/ ChangesWithin(rq.caller.org_id)
             \/ ~create_event(rq.caller, rq.scheduled_shift_id, rq.ot_reason_id,
                              rq.classification_id)
        /\ \A rq \in ClassificationRequests :
             ChangesWithin(rq.caller.org_id) \/ ~create_classification(rq)

C22_OrgIsolation == [][C22_Step]_vars

\* the supervisor of organization "A" has just got a list that holds an
\* event while a classification of organization "B" is stored and an
\* accepted attempt is committed
C22_Witness ==
  /\ lastOp = "ok"
  /\ Len(lastList) >= 1
  /\ "scheduled_shift_id" \in DOMAIN lastList[1]
  /\ \E c \in 1..Len(classifications) : classifications[c].org_id = "B"
  /\ \E i \in 1..Len(attempts) : attempts[i].response = "accepted"

\* ---- C23
\* the value went from old to new by nothing or by the hours of a shift whose
\* template has a duration above 0
KeptOrCredited(old, new) ==
  \/ new = old
  \/ \E s \in ShiftIds :
       /\ ShiftTable[s].duration_minutes > 0
       /\ 60 * (new - old) = ShiftTable[s].duration_minutes

C23_NonNegative ==
  \A k \in DOMAIN ot_hours :
    ot_hours[k] # NoRow => (ot_hours[k].hours_worked >= 0 /\ ot_hours[k].hours_declined >= 0)

C23_Step ==
  \A k \in DOMAIN ot_hours :
    /\ ot_hours[k] # NoRow => ot_hours'[k] # NoRow
    /\ KeptOrCredited(WorkedIn(ot_hours, k), WorkedIn(ot_hours', k))
    /\ KeptOrCredited(DeclinedIn(ot_hours, k), DeclinedIn(ot_hours', k))

\* C23: hours_worked and hours_declined of every ledger row are never below
\* 0, a row never goes away, and every step leaves each of the two values as
\* it is or adds the hours of a shift, which are above 0.
C23_LedgerMonotone == []C23_NonNegative /\ [][C23_Step]_vars

\* a ledger row that was credited on both sides: its user accepted on one
\* event and declined on another
C23_Witness ==
  \E k \in DOMAIN ot_hours :
    /\ ot_hours[k] # NoRow
    /\ ot_hours[k].hours_worked > 0
    /\ ot_hours[k].hours_declined > 0

\* ---- C24
\* C24 as stated: the ot_hours of every entry of a list callout_list returns
\* for an event is the hours_worked of the ledger row of the entry's user and
\* the calendar year of the date of the event's shift (0 without a row), the
\* row record_attempt adds to: the hours of an accepted attempt that is
\* committed show in the next list.
C24_Original_Step ==
  \A c \in Callers, e \in 1..Len(events) :
    \/ lastOp' # "ok"
    \/ \A i \in 1..Len(lastList') :
         /\ "ot_hours" \in DOMAIN lastList'[i]
         /\ lastList'[i].ot_hours = WorkedIn(ot_hours, <<lastList'[i].user_id, fiscal_year(e)>>)
    \/ ~callout_list(c, e)

C24_Original == [][C24_Original_Step]_vars

\* ---- C25
\* C25 as stated: both organizations start with an active admin, and after
\* any calls of users::update and users::deactivate, overlapping or not,
\* each still has a user with role admin who is active.
C25_Original ==
  \A org \in {"A", "B"} : admin_count(org) >= 1

\* ---- C26
\* two rows of one user that are both pending or approved and whose date
\* ranges have a day in common
OverlappingPair(a, b) ==
  /\ a.id # b.id
  /\ a.user_id = b.user_id
  /\ a.status \in {"pending", "approved"}
  /\ b.status \in {"pending", "approved"}
  /\ DateLE(a.start_date, b.end_date)
  /\ DateLE(b.start_date, a.end_date)

\* C26 as stated: after any calls of leave::create, leave::review and
\* leave::cancel, overlapping or not, no user has two pending or approved
\* leave requests whose date ranges overlap.
C26_Original ==
  \A a, b \in leave_requests : ~OverlappingPair(a, b)

\* ---- C27
\* C27: an event is filled exactly when it has an accepted attempt; a filled
\* event has exactly one, and no attempt of the event has a higher
\* list_position; an open or cancelled event has none.
C27_FilledIffAccepted ==
  \A e \in 1..Len(events) :
    /\ events[e].status = "filled" <=> AcceptedAttempts(e) # {}
    /\ events[e].status = "filled" =>
         /\ Cardinality(AcceptedAttempts(e)) = 1
         /\ \A i \in AcceptedAttempts(e) :
              \A j \in 1..Len(attempts) :
                attempts[j].event_id = e /\ j # i =>
                  attempts[j].list_position < attempts[i].list_position
    /\ events[e].status \in {"open", "cancelled"} =>
         \A j \in 1..Len(attempts) :
           attempts[j].event_id = e => attempts[j].response # "accepted"

\* a filled event whose accepted attempt came second, after an attempt with
\* another response
C27_Witness ==
  \E e \in 1..Len(events) :
    /\ events[e].status = "filled"
    /\ Len(AttemptsOf(e)) = 2
    /\ AttemptsOf(e)[1].response # "accepted"
    /\ AttemptsOf(e)[2].response = "accepted"

\* ---- C28
\* the statement connection p is at waits for a lock that connection q holds
WaitsFor(p, q) ==
  /\ p # q
  /\ \/ pc[p] = "lock" /\ HoldsEventLock(q, req[p].event_id)
     \/ pc[p] = "assign" /\ HoldsAssignmentKey(q, ReqShift(p), req[p].user_id)
     \/ pc[p] = "upsert" /\ HoldsLedgerRow(q, req[p].user_id, fiscal_year(req[p].event_id))

RECURSIVE WaitPath(_, _, _)
WaitPath(p, q, n) ==
  \/ WaitsFor(p, q)
  \/ n > 1 /\ \E r \in Txs : WaitsFor(p, r) /\ WaitPath(r, q, n - 1)

NoWaitCycle == \A p \in Txs : ~WaitPath(p, p, NumTx)

\* C28: under fair scheduling every record_attempt call that has begun and
\* every cancel_event call that has arrived returns (with its commit or with
\* an error), and the calls in flight never wait on each other in a cycle.
C28_EveryCallCompletes ==
  /\ []NoWaitCycle
  /\ \A p \in Txs : (pc[p] # "idle") ~> (pc[p] = "idle")
  /\ \A p \in Txs : (call[p] # NoCall) ~> (call[p] = NoCall)

\* two calls on different events for the same user and shift: one has its
\* assignment row written and not committed, the other waits at its own
\* INSERT, while a cancel_event call waits for the event of one of them
C28_Witness ==
  \E p, q, r \in Txs :
    /\ pc[p] = "assign" /\ WaitsFor(p, q)
    /\ req[p].event_id # req[q].event_id
    /\ call[r] # NoCall
    /\ HoldsEventLock(q, call[r].event_id)

\* ---- C29
\* the committed attempts of user u with response r on shifts dated in year y
AttemptsCounted(u, y, r) ==
  {i \in 1..Len(attempts) :
     /\ attempts[i].user_id = u
     /\ attempts[i].response = r
     /\ ShiftTable[events[attempts[i].event_id].scheduled_shift_id].date.year = y}

RECURSIVE SumShiftHours(_)
SumShiftHours(S) ==
  IF S = {} THEN 0
  ELSE LET i == CHOOSE j \in S : TRUE IN
         shift_hours(attempts[i].event_id) + SumShiftHours(S \ {i})

\* C29: from the empty ledger on, hours_worked of (user, year) is the sum of
\* the shift hours of the user's committed accepted attempts on shifts dated
\* in the year and hours_declined the sum over the declined ones; a row
\* exists only if one of the two kinds of attempt does, so that no_answer
\* attempts add neither hours nor a row.
C29_LedgerIsSumOfAttempts ==
  \A u \in UserIds, y \in Years :
    LET row == ot_hours[<<u, y>>] IN
      /\ row = NoRow <=> AttemptsCounted(u, y, "accepted") \cup AttemptsCounted(u, y, "declined") = {}
      /\ row # NoRow =>
           /\ row.hours_worked = SumShiftHours(AttemptsCounted(u, y, "accepted"))
           /\ row.hours_declined = SumShiftHours(AttemptsCounted(u, y, "declined"))

\* a user with a committed no_answer attempt and a committed accepted one,
\* whose row holds the hours of the accepted one alone
C29_Witness ==
  \E i, j \in 1..Len(attempts) :
    /\ attempts[i].user_id = attempts[j].user_id
    /\ attempts[i].response = "no_answer"
    /\ attempts[j].response = "accepted"
    /\ ot_hours[<<attempts[j].user_id, fiscal_year(attempts[j].event_id)>>]
         = [hours_worked |-> shift_hours(attempts[j].event_id), hours_declined |-> 0]

\* ---- C30
\* C30 as stated: a user's hours_worked is credited once per scheduled
\* shift: the commit of an accepted attempt for a user who already has an
\* assignment on the event's shift adds no assignment row and leaves the
\* ledger as it is.
C30_Original_Step ==
  \A p \in Txs :
    ( /\ CommitStep(p)
      /\ req[p].response = "accepted"
      /\ AssignmentRows(ReqShift(p), req[p].user_id) # {}
      /\ \E i \in 1..Len(attempts) :
           /\ attempts[i].response = "accepted"
           /\ attempts[i].user_id = req[p].user_id
           /\ attempts[i].event_id # req[p].event_id
           /\ events[attempts[i].event_id].scheduled_shift_id = ReqShift(p) )
    => (assignments' = assignments /\ ot_hours' = ot_hours)

C30_Original == [][C30_Original_Step]_vars

====
